---- MODULE Spec2Model ----
(***************************************************************************)
(* Bulletproofs range proofs (xelis-project/bulletproofs):                 *)
(* src/src/range_proof/mod.rs.                                             *)
(*                                                                         *)
(* The group is modelled algebraically: a point is the vector of its       *)
(* coefficients over the independent generators B, B_blinding, G[j][i],    *)
(* H[j][i] of the run's BulletproofGens/PedersenGens, the scalars are the  *)
(* integers modulo the prime Order.  The transcript is a rolling hash      *)
(* state, the rng a seeded generator of nonzero scalars.                   *)
(***************************************************************************)
EXTENDS Integers, Sequences, FiniteSets, TLC

(***************************************************************************)
(* Scalars: curve25519_dalek::scalar::Scalar, the field of integers modulo *)
(* the (prime) group order.                                                *)
(***************************************************************************)
Order == 46337

ScAdd(a, b) == (a + b) % Order
ScSub(a, b) == (a + Order - b) % Order
ScMul(a, b) == (a * b) % Order
ScNeg(a) == (Order - a) % Order

RECURSIVE ScPow(_, _)
ScPow(a, e) ==
    IF e = 0 THEN 1
    ELSE LET h == ScPow(a, e \div 2)
             hh == ScMul(h, h)
         IN  IF e % 2 = 1 THEN ScMul(hh, a) ELSE hh

\* Scalar::invert: a^(Order-2); the inverse of zero is zero.
ScInv(a) == ScPow(a, Order - 2)

\* Scalar::from(u64)
ScFrom(v) == v % Order

\* a vector given as a function, as the tuple of its values
Vec(f) == f \o <<>>

\* util::exp_iter(x).take(len): <<x^0, x^1, ..., x^(len-1)>>
exp_iter(x, len) == Vec([i \in 1..len |-> ScPow(x, i - 1)])

\* the scalar sum of the entries lo..hi of a vector (sums are computed by
\* halves: addition is associative)
RECURSIVE SumRange(_, _, _)
SumRange(s, lo, hi) ==
    IF lo > hi THEN 0
    ELSE IF lo = hi THEN s[lo]
    ELSE LET mid == (lo + hi) \div 2
         IN  ScAdd(SumRange(s, lo, mid), SumRange(s, mid + 1, hi))

\* the scalar sum of a vector
SeqSum(s) == SumRange(s, 1, Len(s))

\* util::sum_of_powers(x, n) = x^0 + ... + x^(n-1)
sum_of_powers(x, n) == SeqSum(exp_iter(x, n))

\* util::inner_product
inner_product(a, b) == SeqSum([i \in 1..Len(a) |-> ScMul(a[i], b[i])])

(***************************************************************************)
(* Points: curve25519_dalek::ristretto::RistrettoPoint.  A point is the    *)
(* tuple of its coefficients over the generators of the run, in the order  *)
(* B, B_blinding, G[0][0..gc-1], ..., G[pc-1][..], H[0][0..gc-1], ...      *)
(* (gc, pc the capacities of the BulletproofGens).                         *)
(***************************************************************************)
None == <<>>

\* number of generators of a BulletproofGens/PedersenGens pair
Dim(gens) == 2 + 2 * gens.gens_capacity * gens.party_capacity

Unit(gens, k) == [c \in 1..Dim(gens) |-> IF c = k THEN 1 ELSE 0]

\* RistrettoPoint::identity()
Identity(gens) == [c \in 1..Dim(gens) |-> 0]

\* PedersenGens::default(): B and B_blinding
PedB(gens) == Unit(gens, 1)
PedBBlinding(gens) == Unit(gens, 2)

\* BulletproofGens: G[j][i] and H[j][i], party j (from 0), bit i (from 0)
GIndex(gens, j, i) == 2 + j * gens.gens_capacity + i + 1
HIndex(gens, j, i) ==
    2 + gens.party_capacity * gens.gens_capacity + j * gens.gens_capacity + i + 1

\* IsIdentity::is_identity
is_identity(pt) == \A c \in 1..Len(pt) : pt[c] = 0

PtAdd(p, q) == [c \in 1..Len(p) |-> (p[c] + q[c]) % Order]
PtMul(s, p) == [c \in 1..Len(p) |-> (s * p[c]) % Order]

\* coefficient c of the sum of scalars[k] * points[k], k in lo..hi
RECURSIVE MsmCoord(_, _, _, _, _)
MsmCoord(scalars, points, c, lo, hi) ==
    IF lo > hi THEN 0
    ELSE IF lo = hi THEN (scalars[lo] * points[lo][c]) % Order
    ELSE LET mid == (lo + hi) \div 2
         IN  (MsmCoord(scalars, points, c, lo, mid)
                + MsmCoord(scalars, points, c, mid + 1, hi)) % Order

\* VartimeMultiscalarMul::vartime_multiscalar_mul: sum of scalars[k] * points[k]
\* (dim, the number of coefficients of a point, gives the sum of no points)
multiscalar_mul(dim, scalars, points) ==
    [c \in 1..dim |-> MsmCoord(scalars, points, c, 1, Len(scalars))]

\* VartimeMultiscalarMul::optional_multiscalar_mul: None when a point is None
optional_multiscalar_mul(dim, scalars, points) ==
    IF \E k \in 1..Len(points) : points[k] = None THEN None
    ELSE Vec(multiscalar_mul(dim, scalars, points))

\* the sum of a non-empty vector of points
PtSum(points) ==
    multiscalar_mul(Len(points[1]), [k \in 1..Len(points) |-> 1], points)

\* PedersenGens::commit(value, blinding) = value * B + blinding * B_blinding
commit(gens, value, blinding) ==
    [c \in 1..Dim(gens) |-> IF c = 1 THEN value ELSE IF c = 2 THEN blinding ELSE 0]

(***************************************************************************)
(* 32-byte encodings.  A 32-byte array is a tuple of integers: <<0>> \o p  *)
(* is the compressed encoding of the point p, <<1, v>> the little-endian   *)
(* encoding of the integer v (canonical as a scalar when v < Order), and   *)
(* <<2, k>> an array that is neither a valid point nor a canonical scalar. *)
(***************************************************************************)
\* RistrettoPoint::compress
compress(pt) == <<0>> \o pt

\* CompressedRistretto::decompress: None when the bytes encode no point
decompress(c) == IF c[1] = 0 THEN Tail(c) ELSE None

\* Scalar::as_bytes / Scalar::to_bytes
scalar_bytes(s) == <<1, s>>

\* Scalar::from_canonical_bytes: None unless the integer is below the order
from_canonical_bytes(b) == IF b[1] = 1 /\ b[2] < Order THEN <<b[2]>> ELSE None

(***************************************************************************)
(* The rng: a seeded generator; Scalar::random draws the next nonzero      *)
(* scalar from it.                                                         *)
(***************************************************************************)
RngMod == 65537
RngNext(r) == (r * 75 + 74) % RngMod

\* Scalar::random(rng): <<the scalar drawn, the rng after the draw>>
ScalarRandom(r) == <<1 + (RngNext(r) % (Order - 1)), RngNext(r)>>

\* the rng after k draws
RECURSIVE RngSkip(_, _)
RngSkip(r, k) ==
    IF k = 0 THEN r
    ELSE IF k = 1 THEN RngNext(r)
    ELSE RngSkip(RngSkip(r, k \div 2), k - (k \div 2))

\* (0..len).map(|_| Scalar::random(rng)).collect(): <<the vector, the rng after>>
RandomVec(r, len) ==
    <<Vec([i \in 1..len |-> ScalarRandom(RngSkip(r, i - 1))[1]]), RngSkip(r, len)>>

(***************************************************************************)
(* merlin::Transcript with the TranscriptProtocol extension: h is the hash *)
(* state, ops the labels of the operations performed on it, in order.      *)
(***************************************************************************)
TMod == 46327
TMult == 40503

Absorb(h, x) == (h * TMult + x + 1) % TMod

\* the digest of the entries lo..hi of a message
RECURSIVE Digest(_, _, _)
Digest(xs, lo, hi) ==
    IF lo > hi THEN 0
    ELSE IF lo = hi THEN (xs[lo] + 1) % TMod
    ELSE LET mid == (lo + hi) \div 2
         IN  (Digest(xs, lo, mid) * TMult + Digest(xs, mid + 1, hi) + 1) % TMod

\* the hash state after a message
AbsorbSeq(h, xs) == Absorb(h, Digest(xs, 1, Len(xs)))

LabelCode(label) ==
    CASE label = "dom-sep" -> 101
      [] label = "n" -> 102
      [] label = "m" -> 103
      [] label = "V" -> 104
      [] label = "A" -> 105
      [] label = "S" -> 106
      [] label = "y" -> 107
      [] label = "z" -> 108
      [] label = "T_1" -> 109
      [] label = "T_2" -> 110
      [] label = "x" -> 111
      [] label = "t_x" -> 112
      [] label = "t_x_blinding" -> 113
      [] label = "e_blinding" -> 114
      [] label = "w" -> 115
      [] label = "L" -> 116
      [] label = "R" -> 117
      [] label = "u" -> 118
      [] label = "ipp_a" -> 119
      [] label = "ipp_b" -> 120
      [] label = "c" -> 121

\* Transcript::new(label): label is the number of the caller's label
TranscriptNew(label) == [h |-> Absorb(0, label), ops |-> <<>>]

\* Transcript::append_message(label, bytes)
append_message(t, label, bytes) ==
    [h |-> AbsorbSeq(Absorb(t.h, LabelCode(label)), bytes),
     ops |-> Append(t.ops, label)]

\* TranscriptProtocol::rangeproof_domain_sep(n, m)
rangeproof_domain_sep(t, n, m) ==
    [h |-> AbsorbSeq(t.h, <<LabelCode("dom-sep"), 1, LabelCode("n"), n,
                            LabelCode("m"), m>>),
     ops |-> Append(t.ops, "dom-sep")]

\* TranscriptProtocol::innerproduct_domain_sep(n)
innerproduct_domain_sep(t, n) ==
    [h |-> AbsorbSeq(t.h, <<LabelCode("dom-sep"), 2, LabelCode("n"), n>>),
     ops |-> Append(t.ops, "ipp-dom-sep")]

\* TranscriptProtocol::append_scalar(label, scalar)
append_scalar(t, label, s) == append_message(t, label, scalar_bytes(s))

\* TranscriptProtocol::append_point(label, compressed point)
append_point(t, label, c) == append_message(t, label, c)

\* CompressedRistretto::is_identity: the encoding of the identity point
compressed_is_identity(c) == c[1] = 0 /\ \A k \in 2..Len(c) : c[k] = 0

\* TranscriptProtocol::validate_and_append_point: not ok (VerificationError)
\* for the identity, else ok with the transcript after the append
validate_and_append_point(t, label, c) ==
    IF compressed_is_identity(c) THEN [ok |-> FALSE, t |-> t]
    ELSE [ok |-> TRUE, t |-> append_point(t, label, c)]

\* TranscriptProtocol::challenge_scalar(label): <<challenge, transcript after>>
challenge_scalar(t, label) ==
    LET h1 == Absorb(Absorb(t.h, LabelCode(label)), 0)
    IN  <<1 + (h1 % (Order - 1)), [h |-> h1, ops |-> Append(t.ops, label)]>>

\* A sequence of operations on a transcript, each of which may return an
\* error (the ? operator): ok (no operation has failed), t (the transcript),
\* ch (the challenges drawn so far, in order).  An operation after a failed
\* one is not performed.
StNew(t) == [ok |-> TRUE, t |-> t, ch |-> <<>>]

StValidated(st, r) == [st EXCEPT !.ok = r.ok, !.t = r.t]

\* the point appended without being validated (append_point)
StPointUnvalidated(st, label, c) ==
    IF ~st.ok THEN st ELSE [st EXCEPT !.t = append_point(st.t, label, c)]

\* transcript.validate_and_append_point(label, c)?
StPoint(st, label, c) ==
    IF ~st.ok THEN st
    ELSE StValidated(st, validate_and_append_point(st.t, label, c))

\* transcript.append_scalar(label, s)
StScalar(st, label, s) ==
    IF ~st.ok THEN st ELSE [st EXCEPT !.t = append_scalar(st.t, label, s)]

StDrawn(st, c) == [st EXCEPT !.t = c[2], !.ch = Append(st.ch, c[1])]

\* transcript.challenge_scalar(label)
StChallenge(st, label) ==
    IF ~st.ok THEN st ELSE StDrawn(st, challenge_scalar(st.t, label))

(***************************************************************************)
(* InnerProductProof (inner_product_proof.rs)                              *)
(***************************************************************************)
Lg(k) == CHOOSE e \in 0..31 : 2^e <= k /\ k < 2^(e + 1)
is_power_of_two(k) == k >= 1 /\ 2^Lg(k) = k

ScVecFold(lo, hi, x, y) ==
    Vec([i \in 1..Len(lo) |-> ScAdd(ScMul(lo[i], x), ScMul(hi[i], y))])

PtVecFold(lo, hi, x, y) ==
    Vec([i \in 1..Len(lo) |->
        Vec([c \in 1..Len(lo[i]) |->
            (((x * lo[i][c]) % Order) + ((y * hi[i][c]) % Order)) % Order])])

\* InnerProductProof::create: the halving rounds, on the bases G and H (the
\* factors already applied), the vectors a and b, and Q
RECURSIVE IppRounds(_, _, _, _, _, _, _, _)
IppRounds(t, Q, G, H, a, b, Ls, Rs) ==
    IF Len(a) = 1
    THEN [proof |-> [L_vec |-> Ls, R_vec |-> Rs, a |-> a[1], b |-> b[1]],
          t |-> t]
    ELSE
      LET h == Len(a) \div 2
          a_L == SubSeq(a, 1, h)
          a_R == SubSeq(a, h + 1, 2 * h)
          b_L == SubSeq(b, 1, h)
          b_R == SubSeq(b, h + 1, 2 * h)
          G_L == SubSeq(G, 1, h)
          G_R == SubSeq(G, h + 1, 2 * h)
          H_L == SubSeq(H, 1, h)
          H_R == SubSeq(H, h + 1, 2 * h)
          c_L == inner_product(a_L, b_R)
          c_R == inner_product(a_R, b_L)
          L == Vec(multiscalar_mul(Len(Q), a_L \o b_R \o <<c_L>>,
                                   G_R \o H_L \o <<Q>>))
          R == Vec(multiscalar_mul(Len(Q), a_R \o b_L \o <<c_R>>,
                                   G_L \o H_R \o <<Q>>))
          t1 == append_point(append_point(t, "L", compress(L)), "R", compress(R))
          ch == challenge_scalar(t1, "u")
          u == ch[1]
          u_inv == ScInv(u)
      IN  IppRounds(ch[2], Q,
                    PtVecFold(G_L, G_R, u_inv, u),
                    PtVecFold(H_L, H_R, u, u_inv),
                    ScVecFold(a_L, a_R, u, u_inv),
                    ScVecFold(b_L, b_R, u_inv, u),
                    Append(Ls, compress(L)), Append(Rs, compress(R)))

\* InnerProductProof::create(transcript, Q, G_factors, H_factors, G, H, a, b)
ipp_create(t, Q, G_factors, H_factors, G, H, a, b) ==
    IppRounds(innerproduct_domain_sep(t, Len(a)), Q,
              Vec([i \in 1..Len(G) |-> Vec(PtMul(G_factors[i], G[i]))]),
              Vec([i \in 1..Len(H) |-> Vec(PtMul(H_factors[i], H[i]))]),
              a, b, <<>>, <<>>)

\* verification_scalars: the challenges u_j, from the points L_j, R_j
RECURSIVE IppChallenges(_, _, _)
IppChallenges(proof, st, j) ==
    IF j > Len(proof.L_vec) THEN st
    ELSE IppChallenges(proof,
             StChallenge(StPoint(StPoint(st, "L", proof.L_vec[j]),
                                 "R", proof.R_vec[j]), "u"),
             j + 1)

\* s[i] (i from 0): s[0] = allinv, s[i] = s[i - k] * u_sq[(lg_n - 1) - lg_i]
\* with k = 1 << lg_i the highest bit of i
RECURSIVE IppS(_, _, _, _)
IppS(i, lg_n, challenges_sq, allinv) ==
    IF i = 0 THEN allinv
    ELSE LET lg_i == Lg(i)
             k == 2^lg_i
         IN  ScMul(IppS(i - k, lg_n, challenges_sq, allinv),
                   challenges_sq[lg_n - lg_i])

RECURSIVE ScProd(_, _, _)
ScProd(xs, i, acc) ==
    IF i > Len(xs) THEN acc ELSE ScProd(xs, i + 1, ScMul(acc, xs[i]))

\* verification_scalars, from the challenges r.ch: (u_j^2), (u_j^-2) and s
VerificationScalarsOf(n, lg_n, r) ==
    LET challenges == r.ch
        challenges_inv == Vec([j \in 1..lg_n |-> ScInv(challenges[j])])
        allinv == ScProd(challenges_inv, 1, 1)
        challenges_sq ==
            Vec([j \in 1..lg_n |-> ScMul(challenges[j], challenges[j])])
        challenges_inv_sq ==
            Vec([j \in 1..lg_n |-> ScMul(challenges_inv[j], challenges_inv[j])])
    IN  IF ~r.ok
        THEN [ok |-> FALSE, t |-> r.t, x_sq |-> <<>>, x_inv_sq |-> <<>>, s |-> <<>>]
        ELSE [ok |-> TRUE, t |-> r.t, x_sq |-> challenges_sq,
              x_inv_sq |-> challenges_inv_sq,
              s |-> Vec([i \in 1..n |-> IppS(i - 1, lg_n, challenges_sq, allinv)])]

\* InnerProductProof::verification_scalars(n, transcript): not ok
\* (VerificationError) when the proof does not have lg(n) rounds or a point
\* L_j, R_j is the identity; else (u_j^2), (u_j^-2), s and the transcript
verification_scalars(proof, n, t) ==
    IF Len(proof.L_vec) >= 32 \/ n # 2^Len(proof.L_vec)
    THEN [ok |-> FALSE, t |-> t, x_sq |-> <<>>, x_inv_sq |-> <<>>, s |-> <<>>]
    ELSE VerificationScalarsOf(n, Len(proof.L_vec),
             IppChallenges(proof, StNew(innerproduct_domain_sep(t, n)), 1))

(***************************************************************************)
(* BulletproofGens (generators.rs)                                         *)
(***************************************************************************)
\* BulletproofGens::share(j).G(n): the first n generators G of party j
ShareG(gens, j, n) == [i \in 1..n |-> Unit(gens, GIndex(gens, j, i - 1))]
ShareH(gens, j, n) == [i \in 1..n |-> Unit(gens, HIndex(gens, j, i - 1))]

\* BulletproofGens::G(n, m): the first n generators of each of the first m
\* parties, party after party
GensG(gens, n, m) ==
    [k \in 1..(n * m) |-> Unit(gens, GIndex(gens, (k - 1) \div n, (k - 1) % n))]
GensH(gens, n, m) ==
    [k \in 1..(n * m) |-> Unit(gens, HIndex(gens, (k - 1) \div n, (k - 1) % n))]

(***************************************************************************)
(* Party (range_proof/party.rs)                                            *)
(***************************************************************************)
ValidBitsize(n) == n = 8 \/ n = 16 \/ n = 32 \/ n = 64

\* bit i of the u64 v: (v >> i) & 1
Bit(v, i) == (v \div (2^i)) % 2

\* Party::new(bp_gens, pc_gens, v, v_blinding, n)
PartyNew(gens, v, v_blinding, n) ==
    IF ~ValidBitsize(n) THEN [err |-> "InvalidBitsize"]
    ELSE IF gens.gens_capacity < n THEN [err |-> "InvalidGeneratorsLength"]
    ELSE [err |-> "Ok",
          party |-> [state |-> "AwaitingPosition", n |-> n, v |-> v,
                     v_blinding |-> v_blinding,
                     V |-> compress(commit(gens, ScFrom(v), v_blinding))]]

\* PartyAwaitingPosition::assign_position_with_rng(j, rng)
assign_position(gens, p, j, rng) ==
    IF gens.party_capacity <= j THEN [err |-> "InvalidGeneratorsLength"]
    ELSE
      LET n == p.n
          r1 == ScalarRandom(rng)
          a_blinding == r1[1]
          a_L == [i \in 1..n |-> Bit(p.v, i - 1)]
          a_R == [i \in 1..n |-> ScSub(Bit(p.v, i - 1), 1)]
          A == Vec(multiscalar_mul(Dim(gens), <<a_blinding>> \o a_L \o a_R,
                   <<PedBBlinding(gens)>> \o ShareG(gens, j, n) \o ShareH(gens, j, n)))
          r2 == ScalarRandom(r1[2])
          s_blinding == r2[1]
          r3 == RandomVec(r2[2], n)
          s_L == r3[1]
          r4 == RandomVec(r3[2], n)
          s_R == r4[1]
          S == Vec(multiscalar_mul(Dim(gens), <<s_blinding>> \o s_L \o s_R,
                   <<PedBBlinding(gens)>> \o ShareG(gens, j, n) \o ShareH(gens, j, n)))
      IN  [err |-> "Ok",
           party |-> [state |-> "AwaitingBitChallenge", n |-> n, v |-> p.v,
                      v_blinding |-> p.v_blinding, j |-> j,
                      a_blinding |-> a_blinding, s_blinding |-> s_blinding,
                      s_L |-> s_L, s_R |-> s_R],
           bit_commitment |-> [V_j |-> p.V, A_j |-> A, S_j |-> S],
           rng |-> r4[2]]

\* PartyAwaitingBitChallenge::apply_challenge_with_rng(bit_challenge, rng)
apply_bit_challenge(gens, p, vc, rng) ==
    LET n == p.n
        offset_y == ScPow(vc.y, p.j * n)
        offset_z == ScPow(vc.z, p.j)
        offset_zz == ScMul(ScMul(vc.z, vc.z), offset_z)
        exp_y == exp_iter(vc.y, n)
        exp_2 == exp_iter(2, n)
        a_L == [i \in 1..n |-> Bit(p.v, i - 1)]
        l0 == Vec([i \in 1..n |-> ScSub(a_L[i], vc.z)])
        l1 == p.s_L
        r0 == Vec([i \in 1..n |->
                 ScAdd(ScMul(ScMul(offset_y, exp_y[i]),
                             ScAdd(ScSub(a_L[i], 1), vc.z)),
                       ScMul(offset_zz, exp_2[i]))])
        r1 == Vec([i \in 1..n |-> ScMul(ScMul(offset_y, exp_y[i]), p.s_R[i])])
        t0 == inner_product(l0, r0)
        t1 == ScAdd(inner_product(l0, r1), inner_product(l1, r0))
        t2 == inner_product(l1, r1)
        d1 == ScalarRandom(rng)
        t_1_blinding == d1[1]
        d2 == ScalarRandom(d1[2])
        t_2_blinding == d2[1]
    IN  [party |-> [state |-> "AwaitingPolyChallenge", n |-> n, v |-> p.v,
                    j |-> p.j, offset_zz |-> offset_zz,
                    l_poly |-> <<l0, l1>>, r_poly |-> <<r0, r1>>,
                    t_poly |-> <<t0, t1, t2>>,
                    v_blinding |-> p.v_blinding, a_blinding |-> p.a_blinding,
                    s_blinding |-> p.s_blinding,
                    t_1_blinding |-> t_1_blinding, t_2_blinding |-> t_2_blinding],
         poly_commitment |-> [T_1_j |-> commit(gens, t1, t_1_blinding),
                              T_2_j |-> commit(gens, t2, t_2_blinding)],
         rng |-> d2[2]]

\* Poly2::eval(x) = c0 + x * (c1 + x * c2)
Poly2Eval(c, x) == ScAdd(c[1], ScMul(x, ScAdd(c[2], ScMul(x, c[3]))))

\* VecPoly1::eval(x) = v0 + x * v1, entry by entry
VecPoly1Eval(v, x) == Vec([i \in 1..Len(v[1]) |-> ScAdd(v[1][i], ScMul(v[2][i], x))])

\* apply_challenge without its check of the challenge: a share is made for
\* every x
apply_poly_challenge_unchecked(p, pc) ==
    [err |-> "Ok",
     share |-> [t_x |-> Poly2Eval(p.t_poly, pc.x),
                t_x_blinding |->
                    Poly2Eval(<<ScMul(p.offset_zz, p.v_blinding),
                                p.t_1_blinding, p.t_2_blinding>>, pc.x),
                e_blinding |-> ScAdd(p.a_blinding, ScMul(p.s_blinding, pc.x)),
                l_vec |-> VecPoly1Eval(p.l_poly, pc.x),
                r_vec |-> VecPoly1Eval(p.r_poly, pc.x)]]

\* PartyAwaitingPolyChallenge::apply_challenge(poly_challenge)
apply_poly_challenge(p, pc) ==
    IF pc.x = 0 THEN [err |-> "MaliciousDealer"]
    ELSE [err |-> "Ok",
          share |-> [t_x |-> Poly2Eval(p.t_poly, pc.x),
                     t_x_blinding |->
                         Poly2Eval(<<ScMul(p.offset_zz, p.v_blinding),
                                     p.t_1_blinding, p.t_2_blinding>>, pc.x),
                     e_blinding |-> ScAdd(p.a_blinding, ScMul(p.s_blinding, pc.x)),
                     l_vec |-> VecPoly1Eval(p.l_poly, pc.x),
                     r_vec |-> VecPoly1Eval(p.r_poly, pc.x)]]

(***************************************************************************)
(* RangeProof verification: BatchCollector (range_proof/mod.rs)            *)
(***************************************************************************)
\* delta as it is for one party: the sum of the powers of z left out
delta_single_party(n, m, y, z) ==
    LET sum_y == sum_of_powers(y, n * m)
        sum_2 == sum_of_powers(ScFrom(2), n)
    IN  ScSub(ScMul(ScSub(z, ScMul(z, z)), sum_y),
              ScMul(ScMul(ScMul(z, z), z), sum_2))

\* delta with the powers of y summed over one party's n bits only
delta_sum_y_one_party(n, m, y, z) ==
    LET sum_y == sum_of_powers(y, n)
        sum_2 == sum_of_powers(ScFrom(2), n)
        sum_z == sum_of_powers(z, m)
    IN  ScSub(ScMul(ScSub(z, ScMul(z, z)), sum_y),
              ScMul(ScMul(ScMul(ScMul(z, z), z), sum_2), sum_z))

\* delta(n, m, y, z)
delta(n, m, y, z) ==
    LET sum_y == sum_of_powers(y, n * m)
        sum_2 == sum_of_powers(ScFrom(2), n)
        sum_z == sum_of_powers(z, m)
    IN  ScSub(ScMul(ScSub(z, ScMul(z, z)), sum_y),
              ScMul(ScMul(ScMul(ScMul(z, z), z), sum_2), sum_z))

\* RangeProof::verification_view(transcript, value_commitments, n)
verification_view(proof, transcript, value_commitments, n) ==
    [proof |-> proof, transcript |-> transcript,
     value_commitments |-> value_commitments, n |-> n]

\* a collector that starts with Scalar::ONE as the scalar of B
BatchCollectorNewOne ==
    [dynamic_scalars |-> <<>>, dynamic_points |-> <<>>,
     pedersen_B_scalar |-> 1, pedersen_B_blinding_scalar |-> 0,
     g_scalars |-> <<>>, h_scalars |-> <<>>,
     party_capacity |-> 0, gens_capacity |-> 0]

\* BatchCollector::new(bp_gens, pc_gens)
BatchCollectorNew ==
    [dynamic_scalars |-> <<>>, dynamic_points |-> <<>>,
     pedersen_B_scalar |-> 0, pedersen_B_blinding_scalar |-> 0,
     g_scalars |-> <<>>, h_scalars |-> <<>>,
     party_capacity |-> 0, gens_capacity |-> 0]

\* the capacity set to the size of the proof being added
MaxOfLast(a, b) == b

\* usize::max
Max(a, b) == IF a >= b THEN a ELSE b

RECURSIVE AppendPoints(_, _, _, _)
AppendPoints(t, label, cs, i) ==
    IF i > Len(cs) THEN t
    ELSE AppendPoints(append_point(t, label, cs[i]), label, cs, i + 1)

\* a resize that clears what the rows held
ResizeCleared(mat, rows, cols) ==
    Vec([j \in 1..rows |-> Vec([i \in 1..cols |-> 0])])

\* Vec<Vec<Scalar>>::resize_with(rows, || vec![]) then resize(cols, ZERO) of
\* every row
Resize(mat, rows, cols) ==
    Vec([j \in 1..rows |->
        Vec([i \in 1..cols |->
            IF j <= Len(mat) /\ i <= Len(mat[j]) THEN mat[j][i] ELSE 0])])

\* the accumulation of the terms as they are, not multiplied by the batch
\* factor
AccumulateUnscaled(mat, vals, m, n, batch_factor) ==
    Vec([j \in 1..Len(mat) |->
        Vec([i \in 1..Len(mat[j]) |->
            IF j <= m /\ i <= n
            THEN ScAdd(mat[j][i], vals[(j - 1) * n + i])
            ELSE mat[j][i]])])

\* the accumulation with the iterator started again for every party
AccumulateRestarting(mat, vals, m, n, batch_factor) ==
    Vec([j \in 1..Len(mat) |->
        Vec([i \in 1..Len(mat[j]) |->
            IF j <= m /\ i <= n
            THEN ScAdd(mat[j][i], ScMul(vals[i], batch_factor))
            ELSE mat[j][i]])])

\* g_scalars[cur_m][cur_n] += it.next() * batch_factor, cur_m < m, cur_n < n,
\* it the iterator over the vector vals
Accumulate(mat, vals, m, n, batch_factor) ==
    Vec([j \in 1..Len(mat) |->
        Vec([i \in 1..Len(mat[j]) |->
            IF j <= m /\ i <= n
            THEN ScAdd(mat[j][i], ScMul(vals[(j - 1) * n + i], batch_factor))
            ELSE mat[j][i]])])

\* BatchCollector::add_proof, after the replay of the transcript: the
\* accumulation of the proof's scalars and points (lines 644-713)
AddProofCollect(col, view, m, st, rng) ==
    LET proof == view.proof
        n == view.n
        y == st.ch[1]
        z == st.ch[2]
        x == st.ch[3]
        w == st.ch[4]
        c == st.ch[5]
        vs == st.vs
        zz == ScMul(z, z)
        minus_z == ScNeg(z)
        s == vs.s
        nm == Len(s)
        a == proof.ipp_proof.a
        b == proof.ipp_proof.b
        powers_of_2 == exp_iter(ScFrom(2), n)
        exp_z == exp_iter(z, m)
        concat_z_and_2 ==
            Vec([k \in 1..(n * m) |->
                ScMul(powers_of_2[((k - 1) % n) + 1], exp_z[((k - 1) \div n) + 1])])
        g == Vec([k \in 1..nm |-> ScSub(minus_z, ScMul(a, s[k]))])
        exp_y_inv == exp_iter(ScInv(y), nm)
        h == Vec([k \in 1..nm |->
                 ScAdd(z, ScMul(exp_y_inv[k],
                                ScSub(ScMul(zz, concat_z_and_2[k]),
                                      ScMul(b, s[nm + 1 - k]))))])
        value_commitment_scalars ==
            Vec([j \in 1..m |-> ScMul(ScMul(c, zz), exp_z[j])])
        basepoint_scalar ==
            ScAdd(ScMul(w, ScSub(proof.t_x, ScMul(a, b))),
                  ScMul(c, ScSub(delta(n, m, y, z), proof.t_x)))
        rnd == ScalarRandom(rng)
        batch_factor == rnd[1]
        scalars == <<1, x, ScMul(c, x), ScMul(ScMul(c, x), x)>>
                       \o vs.x_sq \o vs.x_inv_sq \o value_commitment_scalars
        party_capacity == Max(col.party_capacity, m)
        gens_capacity == Max(col.gens_capacity, n)
    IN  IF ~st.ok
        THEN [err |-> "VerificationError", col |-> col, t |-> st.t, rng |-> rng]
        ELSE
        [err |-> "Ok",
         t |-> st.t,
         rng |-> rnd[2],
         locals |-> [y |-> y, z |-> z, x |-> x, w |-> w, c |-> c, s |-> s,
                     batch_factor |-> batch_factor],
         col |->
           [dynamic_scalars |-> col.dynamic_scalars \o
                Vec([k \in 1..Len(scalars) |-> ScMul(scalars[k], batch_factor)]),
            dynamic_points |-> col.dynamic_points \o
                <<decompress(proof.A), decompress(proof.S),
                  decompress(proof.T_1), decompress(proof.T_2)>> \o
                Vec([k \in 1..Len(proof.ipp_proof.L_vec) |->
                        decompress(proof.ipp_proof.L_vec[k])]) \o
                Vec([k \in 1..Len(proof.ipp_proof.R_vec) |->
                        decompress(proof.ipp_proof.R_vec[k])]) \o
                Vec([k \in 1..m |-> decompress(view.value_commitments[k])]),
            pedersen_B_blinding_scalar |->
                ScAdd(col.pedersen_B_blinding_scalar,
                      ScMul(ScSub(ScNeg(proof.e_blinding),
                                  ScMul(c, proof.t_x_blinding)), batch_factor)),
            pedersen_B_scalar |->
                ScAdd(col.pedersen_B_scalar, ScMul(basepoint_scalar, batch_factor)),
            party_capacity |-> party_capacity,
            gens_capacity |-> gens_capacity,
            g_scalars |-> Accumulate(Resize(col.g_scalars, party_capacity, gens_capacity),
                                     g, m, n, batch_factor),
            h_scalars |-> Accumulate(Resize(col.h_scalars, party_capacity, gens_capacity),
                                     h, m, n, batch_factor)]]

\* the scalars of the inner product proof join the run
StScalars(st, vs) == [ok |-> vs.ok, t |-> vs.t, ch |-> st.ch, vs |-> vs]

\* proof.ipp_proof.verification_scalars(n * m, transcript)?
StVerificationScalars(st, proof, nm) ==
    IF ~st.ok THEN [ok |-> FALSE, t |-> st.t, ch |-> st.ch, vs |-> <<>>]
    ELSE StScalars(st, verification_scalars(proof, nm, st.t))

\* add_proof with the value commitments validated as A and S are: a
\* commitment that is the identity point is a VerificationError
add_proof_validated_commitments(col, gens, view, rng) ==
    LET m == Len(view.value_commitments)
        proof == view.proof
        stV == StNew(AppendPoints(
                   rangeproof_domain_sep(view.transcript, view.n, m),
                   "V", view.value_commitments, 1))
        stz == StChallenge(StChallenge(
                   StPoint(StPoint(stV, "A", proof.A), "S", proof.S), "y"), "z")
        stx == StChallenge(
                   StPoint(StPoint(stz, "T_1", proof.T_1), "T_2", proof.T_2), "x")
        stw == StChallenge(
                   StScalar(StScalar(StScalar(stx, "t_x", proof.t_x),
                                     "t_x_blinding", proof.t_x_blinding),
                            "e_blinding", proof.e_blinding), "w")
        sts == StVerificationScalars(stw, proof.ipp_proof, view.n * m)
        stc == StChallenge(
                   StScalar(StScalar(sts, "ipp_a", proof.ipp_proof.a),
                            "ipp_b", proof.ipp_proof.b), "c")
    IN  IF ~(view.n = 8 \/ view.n = 16 \/ view.n = 32 \/ view.n = 64)
        THEN [err |-> "InvalidBitsize", col |-> col, t |-> view.transcript,
              rng |-> rng]
        ELSE IF gens.gens_capacity < view.n
        THEN [err |-> "InvalidGeneratorsLength", col |-> col,
              t |-> view.transcript, rng |-> rng]
        ELSE IF gens.party_capacity < m
        THEN [err |-> "InvalidGeneratorsLength", col |-> col,
              t |-> view.transcript, rng |-> rng]
        ELSE IF \E j \in 1..m : compressed_is_identity(view.value_commitments[j])
        THEN [err |-> "VerificationError", col |-> col,
              t |-> rangeproof_domain_sep(view.transcript, view.n, m),
              rng |-> rng]
        ELSE AddProofCollect(col, view, m, stc, rng)

\* add_proof without the check of the number of commitments against the
\* party capacity
add_proof_no_party_check(col, gens, view, rng) ==
    LET m == Len(view.value_commitments)
        proof == view.proof
        stV == StNew(AppendPoints(
                   rangeproof_domain_sep(view.transcript, view.n, m),
                   "V", view.value_commitments, 1))
        stz == StChallenge(StChallenge(
                   StPoint(StPoint(stV, "A", proof.A), "S", proof.S), "y"), "z")
        stx == StChallenge(
                   StPoint(StPoint(stz, "T_1", proof.T_1), "T_2", proof.T_2), "x")
        stw == StChallenge(
                   StScalar(StScalar(StScalar(stx, "t_x", proof.t_x),
                                     "t_x_blinding", proof.t_x_blinding),
                            "e_blinding", proof.e_blinding), "w")
        sts == StVerificationScalars(stw, proof.ipp_proof, view.n * m)
        stc == StChallenge(
                   StScalar(StScalar(sts, "ipp_a", proof.ipp_proof.a),
                            "ipp_b", proof.ipp_proof.b), "c")
    IN  IF ~(view.n = 8 \/ view.n = 16 \/ view.n = 32 \/ view.n = 64)
        THEN [err |-> "InvalidBitsize", col |-> col, t |-> view.transcript,
              rng |-> rng]
        ELSE IF gens.gens_capacity < view.n
        THEN [err |-> "InvalidGeneratorsLength", col |-> col,
              t |-> view.transcript, rng |-> rng]
        ELSE AddProofCollect(col, view, m, stc, rng)

\* add_proof with the challenge c drawn right after w, before the inner
\* product proof is replayed
add_proof_c_first(col, gens, view, rng) ==
    LET m == Len(view.value_commitments)
        proof == view.proof
        stV == StNew(AppendPoints(
                   rangeproof_domain_sep(view.transcript, view.n, m),
                   "V", view.value_commitments, 1))
        stz == StChallenge(StChallenge(
                   StPoint(StPoint(stV, "A", proof.A), "S", proof.S), "y"), "z")
        stx == StChallenge(
                   StPoint(StPoint(stz, "T_1", proof.T_1), "T_2", proof.T_2), "x")
        stw == StChallenge(
                   StScalar(StScalar(StScalar(stx, "t_x", proof.t_x),
                                     "t_x_blinding", proof.t_x_blinding),
                            "e_blinding", proof.e_blinding), "w")
        sts == StVerificationScalars(StChallenge(stw, "c"), proof.ipp_proof,
                                     view.n * m)
        stc == StScalar(StScalar(sts, "ipp_a", proof.ipp_proof.a),
                        "ipp_b", proof.ipp_proof.b)
    IN  IF ~(view.n = 8 \/ view.n = 16 \/ view.n = 32 \/ view.n = 64)
        THEN [err |-> "InvalidBitsize", col |-> col, t |-> view.transcript,
              rng |-> rng]
        ELSE IF gens.gens_capacity < view.n
        THEN [err |-> "InvalidGeneratorsLength", col |-> col,
              t |-> view.transcript, rng |-> rng]
        ELSE IF gens.party_capacity < m
        THEN [err |-> "InvalidGeneratorsLength", col |-> col,
              t |-> view.transcript, rng |-> rng]
        ELSE AddProofCollect(col, view, m, stc, rng)

\* BatchCollector::add_proof(view, rng): err, the collector, the view's
\* transcript and the rng after the call
add_proof(col, gens, view, rng) ==
    LET m == Len(view.value_commitments)
        proof == view.proof
        stV == StNew(AppendPoints(
                   rangeproof_domain_sep(view.transcript, view.n, m),
                   "V", view.value_commitments, 1))
        stz == StChallenge(StChallenge(
                   StPoint(StPoint(stV, "A", proof.A), "S", proof.S), "y"), "z")
        stx == StChallenge(
                   StPoint(StPoint(stz, "T_1", proof.T_1), "T_2", proof.T_2), "x")
        stw == StChallenge(
                   StScalar(StScalar(StScalar(stx, "t_x", proof.t_x),
                                     "t_x_blinding", proof.t_x_blinding),
                            "e_blinding", proof.e_blinding), "w")
        sts == StVerificationScalars(stw, proof.ipp_proof, view.n * m)
        stc == StChallenge(
                   StScalar(StScalar(sts, "ipp_a", proof.ipp_proof.a),
                            "ipp_b", proof.ipp_proof.b), "c")
    IN  IF ~(view.n = 8 \/ view.n = 16 \/ view.n = 32 \/ view.n = 64)
        THEN [err |-> "InvalidBitsize", col |-> col, t |-> view.transcript,
              rng |-> rng]
        ELSE IF gens.gens_capacity < view.n
        THEN [err |-> "InvalidGeneratorsLength", col |-> col,
              t |-> view.transcript, rng |-> rng]
        ELSE IF gens.party_capacity < m
        THEN [err |-> "InvalidGeneratorsLength", col |-> col,
              t |-> view.transcript, rng |-> rng]
        ELSE AddProofCollect(col, view, m, stc, rng)

RECURSIVE Flatten(_, _, _)
Flatten(mat, j, acc) ==
    IF j > Len(mat) THEN acc ELSE Flatten(mat, j + 1, acc \o mat[j])

\* verify without the test that the result is the identity
verify_unchecked(col, gens) ==
    LET mega_check ==
            optional_multiscalar_mul(Dim(gens),
                col.dynamic_scalars
                    \o Flatten(col.g_scalars, 1, <<>>)
                    \o Flatten(col.h_scalars, 1, <<>>)
                    \o <<col.pedersen_B_blinding_scalar>>
                    \o <<col.pedersen_B_scalar>>,
                col.dynamic_points
                    \o GensG(gens, col.gens_capacity, col.party_capacity)
                    \o GensH(gens, col.gens_capacity, col.party_capacity)
                    \o <<PedBBlinding(gens)>>
                    \o <<PedB(gens)>>)
    IN  IF mega_check = None THEN "VerificationError" ELSE "Ok"

\* BatchCollector::verify(): one multiscalar multiplication
verify(col, gens) ==
    LET mega_check ==
            optional_multiscalar_mul(Dim(gens),
                col.dynamic_scalars
                    \o Flatten(col.g_scalars, 1, <<>>)
                    \o Flatten(col.h_scalars, 1, <<>>)
                    \o <<col.pedersen_B_blinding_scalar>>
                    \o <<col.pedersen_B_scalar>>,
                col.dynamic_points
                    \o GensG(gens, col.gens_capacity, col.party_capacity)
                    \o GensH(gens, col.gens_capacity, col.party_capacity)
                    \o <<PedBBlinding(gens)>>
                    \o <<PedB(gens)>>)
    IN  IF mega_check = None THEN "VerificationError"
        ELSE IF is_identity(mega_check) THEN "Ok"
        ELSE "VerificationError"

(***************************************************************************)
(* RangeProof::verify_batch_with_rng, verify_multiple_with_rng             *)
(***************************************************************************)
\* verify_batch_with_rng, lines 439-443: add_proof(el, rng)? for the views
\* from the i-th on, then verify; r is the result of add_proof for the
\* (i - 1)-th
RECURSIVE VerifyBatchLoop(_, _, _, _)
VerifyBatchLoop(r, gens, batch, i) ==
    IF r.err # "Ok" THEN [err |-> r.err, rng |-> r.rng]
    ELSE IF i > Len(batch) THEN [err |-> verify(r.col, gens), rng |-> r.rng]
    ELSE VerifyBatchLoop(add_proof(r.col, gens, batch[i], r.rng), gens, batch,
                         i + 1)

\* RangeProof::verify_batch_with_rng(batch, bp_gens, pc_gens, rng)
verify_batch(batch, gens, rng) ==
    VerifyBatchLoop([err |-> "Ok", col |-> BatchCollectorNew, rng |-> rng],
                    gens, batch, 1)

\* RangeProof::verify_multiple_with_rng(bp_gens, pc_gens, transcript,
\* value_commitments, n, rng)
verify_multiple(proof, gens, transcript, value_commitments, n, rng) ==
    verify_batch(<<verification_view(proof, transcript, value_commitments, n)>>,
                 gens, rng)

(***************************************************************************)
(* Dealer (range_proof/dealer.rs) and the audit of a share (messages.rs)   *)
(***************************************************************************)
\* Dealer::new with the domain separator appended before the parameters
\* are checked
DealerNewSeparatorFirst(gens, t, n, m) ==
    LET t1 == rangeproof_domain_sep(t, n, m)
    IN  IF ~ValidBitsize(n) THEN [err |-> "InvalidBitsize", t |-> t1]
        ELSE IF ~is_power_of_two(m)
        THEN [err |-> "InvalidAggregationSize", t |-> t1]
        ELSE IF gens.gens_capacity < n
        THEN [err |-> "InvalidGeneratorsLength", t |-> t1]
        ELSE IF gens.party_capacity < m
        THEN [err |-> "InvalidGeneratorsLength", t |-> t1]
        ELSE [err |-> "Ok",
              dealer |-> [state |-> "AwaitingBitCommitments", n |-> n, m |-> m,
                          initial_transcript |-> t],
              t |-> t1]

\* Dealer::new(bp_gens, pc_gens, transcript, n, m): err, the dealer, and the
\* caller's transcript after the call
DealerNew(gens, t, n, m) ==
    IF ~ValidBitsize(n) THEN [err |-> "InvalidBitsize", t |-> t]
    ELSE IF ~is_power_of_two(m) THEN [err |-> "InvalidAggregationSize", t |-> t]
    ELSE IF gens.gens_capacity < n
    THEN [err |-> "InvalidGeneratorsLength", t |-> t]
    ELSE IF gens.party_capacity < m
    THEN [err |-> "InvalidGeneratorsLength", t |-> t]
    ELSE [err |-> "Ok",
          dealer |-> [state |-> "AwaitingBitCommitments", n |-> n, m |-> m,
                      initial_transcript |-> t],
          t |-> rangeproof_domain_sep(t, n, m)]

\* receive_bit_commitments, after A and S were appended and y, z drawn
BitChallengeOf(d, bcs, A, S, st) ==
    IF ~st.ok THEN [err |-> "MalformedProofShares"]
    ELSE [err |-> "Ok",
          dealer |-> [state |-> "AwaitingPolyCommitments", n |-> d.n,
                      m |-> d.m, initial_transcript |-> d.initial_transcript,
                      bit_challenge |-> [y |-> st.ch[1], z |-> st.ch[2]],
                      bit_commitments |-> bcs, A |-> A, S |-> S],
          bit_challenge |-> [y |-> st.ch[1], z |-> st.ch[2]],
          t |-> st.t]

\* the sums A and S are appended, the challenges y and z drawn
BitChallengeFor(d, t, bcs, A, S) ==
    BitChallengeOf(d, bcs, A, S,
        StChallenge(StChallenge(
            StPoint(StPoint(
                StNew(AppendPoints(t, "V", [j \in 1..Len(bcs) |-> bcs[j].V_j], 1)),
                "A", compress(A)), "S", compress(S)), "y"), "z"))

\* DealerAwaitingBitCommitments::receive_bit_commitments(bit_commitments)
receive_bit_commitments(d, t, bcs) ==
    IF d.m # Len(bcs) THEN [err |-> "WrongNumBitCommitments"]
    ELSE BitChallengeFor(d, t, bcs,
             Vec(PtSum([j \in 1..Len(bcs) |-> bcs[j].A_j])),
             Vec(PtSum([j \in 1..Len(bcs) |-> bcs[j].S_j])))

\* receive_poly_commitments, after T_1 and T_2 were appended and x drawn
PolyChallengeOf(d, pcs, T_1, T_2, st) ==
    IF ~st.ok THEN [err |-> "MalformedProofShares"]
    ELSE [err |-> "Ok",
          dealer |-> [state |-> "AwaitingProofShares", n |-> d.n, m |-> d.m,
                      initial_transcript |-> d.initial_transcript,
                      bit_challenge |-> d.bit_challenge,
                      bit_commitments |-> d.bit_commitments,
                      A |-> d.A, S |-> d.S,
                      poly_challenge |-> [x |-> st.ch[1]],
                      poly_commitments |-> pcs, T_1 |-> T_1, T_2 |-> T_2],
          poly_challenge |-> [x |-> st.ch[1]],
          t |-> st.t]

\* the sums T_1 and T_2 are appended, the challenge x drawn
PolyChallengeFor(d, t, pcs, T_1, T_2) ==
    PolyChallengeOf(d, pcs, T_1, T_2,
        StChallenge(StPoint(StPoint(StNew(t), "T_1", compress(T_1)),
                            "T_2", compress(T_2)), "x"))

\* DealerAwaitingPolyCommitments::receive_poly_commitments(poly_commitments)
receive_poly_commitments(d, t, pcs) ==
    IF d.m # Len(pcs) THEN [err |-> "WrongNumPolyCommitments"]
    ELSE PolyChallengeFor(d, t, pcs,
             Vec(PtSum([j \in 1..Len(pcs) |-> pcs[j].T_1_j])),
             Vec(PtSum([j \in 1..Len(pcs) |-> pcs[j].T_2_j])))

RECURSIVE ConcatVecs(_, _, _)
ConcatVecs(vecs, j, acc) ==
    IF j > Len(vecs) THEN acc ELSE ConcatVecs(vecs, j + 1, acc \o vecs[j])

\* the ascending list of the positions (from 0) j < m at which bad(j) holds
BadList(m, bad(_)) ==
    LET RECURSIVE Go(_, _)
        Go(j, acc) == IF j >= m THEN acc
                      ELSE Go(j + 1, IF bad(j) THEN Append(acc, j) ELSE acc)
    IN  Go(0, <<>>)

\* assemble_shares: the proof, from the sums and the inner product proof
AssembledProof(d, t_x, t_x_blinding, e_blinding, ipp) ==
    [err |-> "Ok",
     proof |-> [A |-> compress(d.A), S |-> compress(d.S),
                T_1 |-> compress(d.T_1), T_2 |-> compress(d.T_2),
                t_x |-> t_x, t_x_blinding |-> t_x_blinding,
                e_blinding |-> e_blinding, ipp_proof |-> ipp.proof],
     t |-> ipp.t]

\* assemble_shares: the inner product proof, after the challenge w was drawn
AssembleWith(gens, d, shares, t_x, t_x_blinding, e_blinding, st) ==
    AssembledProof(d, t_x, t_x_blinding, e_blinding,
        ipp_create(st.t, Vec(PtMul(st.ch[1], PedB(gens))),
                   [k \in 1..(d.n * d.m) |-> 1],
                   exp_iter(ScInv(d.bit_challenge.y), d.n * d.m),
                   GensG(gens, d.n, d.m), GensH(gens, d.n, d.m),
                   ConcatVecs([j \in 1..d.m |-> shares[j].l_vec], 1, <<>>),
                   ConcatVecs([j \in 1..d.m |-> shares[j].r_vec], 1, <<>>)))

\* assemble_shares: the sums of the shares are appended, w is drawn
AssembleSums(gens, d, t, shares, t_x, t_x_blinding, e_blinding) ==
    AssembleWith(gens, d, shares, t_x, t_x_blinding, e_blinding,
        StChallenge(StScalar(StScalar(StScalar(StNew(t), "t_x", t_x),
                                      "t_x_blinding", t_x_blinding),
                             "e_blinding", e_blinding), "w"))

\* DealerAwaitingProofShares::assemble_shares(proof_shares)
assemble_shares(gens, d, t, shares) ==
    LET short(j) == Len(shares[j + 1].l_vec) # d.n \/ Len(shares[j + 1].r_vec) # d.n
    IN  IF d.m # Len(shares) THEN [err |-> "WrongNumProofShares"]
        ELSE IF \E j \in 0..(d.m - 1) : short(j)
        THEN [err |-> "MalformedProofShares", bad_shares |-> BadList(d.m, short)]
        ELSE AssembleSums(gens, d, t, shares,
                 SeqSum([j \in 1..d.m |-> shares[j].t_x]),
                 SeqSum([j \in 1..d.m |-> shares[j].t_x_blinding]),
                 SeqSum([j \in 1..d.m |-> shares[j].e_blinding]))

\* DealerAwaitingProofShares::receive_trusted_shares(proof_shares)
receive_trusted_shares(gens, d, t, shares) == assemble_shares(gens, d, t, shares)

\* ProofShare::audit_share(bp_gens, pc_gens, j, bit_commitment, bit_challenge,
\* poly_commitment, poly_challenge): TRUE for Ok(()), FALSE for Err(())
audit_share(gens, share, j, bc, vc, pcm, pch) ==
    LET n == Len(share.l_vec)
        y == vc.y
        z == vc.z
        x == pch.x
        zz == ScMul(z, z)
        minus_z == ScNeg(z)
        z_j == ScPow(z, j)
        y_jn == ScPow(y, j * n)
        y_jn_inv == ScInv(y_jn)
        exp_y_inv == exp_iter(ScInv(y), n)
        exp_2 == exp_iter(ScFrom(2), n)
        g == Vec([i \in 1..n |-> ScSub(minus_z, share.l_vec[i])])
        h == Vec([i \in 1..n |->
                 ScAdd(ScAdd(z, ScMul(ScMul(exp_y_inv[i], y_jn_inv),
                                      ScNeg(share.r_vec[i]))),
                       ScMul(ScMul(exp_y_inv[i], y_jn_inv),
                             ScMul(ScMul(zz, z_j), exp_2[i])))])
        P_check == Vec(multiscalar_mul(Dim(gens),
                       <<1, x, ScNeg(share.e_blinding)>> \o g \o h,
                       <<bc.A_j, bc.S_j, PedBBlinding(gens)>>
                           \o ShareG(gens, j, n) \o ShareH(gens, j, n)))
        V_j == decompress(bc.V_j)
        delta_j == ScSub(ScMul(ScMul(ScSub(z, zz), sum_of_powers(y, n)), y_jn),
                         ScMul(ScMul(ScMul(z, zz), sum_of_powers(ScFrom(2), n)), z_j))
        t_check == Vec(multiscalar_mul(Dim(gens),
                       <<ScMul(zz, z_j), x, ScMul(x, x),
                         ScSub(delta_j, share.t_x), ScNeg(share.t_x_blinding)>>,
                       <<V_j, pcm.T_1_j, pcm.T_2_j, PedB(gens), PedBBlinding(gens)>>))
    IN  IF Len(share.r_vec) # n \/ n > gens.gens_capacity \/ j >= gens.party_capacity
        THEN FALSE
        ELSE IF share.t_x # inner_product(share.l_vec, share.r_vec) THEN FALSE
        ELSE IF ~is_identity(P_check) THEN FALSE
        ELSE IF V_j = None THEN FALSE
        ELSE is_identity(t_check)

\* receive_shares that trusts the shares, as receive_trusted_shares does
receive_shares_trusting(gens, d, t, shares, rng) ==
    assemble_shares(gens, d, t, shares)

\* receive_shares, after assemble_shares returned r
AuditedShares(gens, d, shares, rng, r) ==
    LET failed(j) == ~audit_share(gens, shares[j + 1], j, d.bit_commitments[j + 1],
                                  d.bit_challenge, d.poly_commitments[j + 1],
                                  d.poly_challenge)
    IN  IF r.err # "Ok" THEN r
        ELSE IF verify_multiple(r.proof, gens, d.initial_transcript,
                    Vec([j \in 1..d.m |-> d.bit_commitments[j].V_j]), d.n,
                    rng).err = "Ok"
        THEN r
        ELSE [err |-> "MalformedProofShares", bad_shares |-> BadList(d.m, failed)]

\* DealerAwaitingProofShares::receive_shares(proof_shares): the proof is
\* assembled and verified from the dealer's initial transcript; when it does
\* not verify, every share is audited and the positions of the shares that
\* fail are returned
receive_shares(gens, d, t, shares, rng) ==
    AuditedShares(gens, d, shares, rng, assemble_shares(gens, d, t, shares))

(***************************************************************************)
(* Byte strings.  A byte string is a sequence of cells; a 32-byte array x  *)
(* takes 32 cells, the first holding x and the others empty.               *)
(***************************************************************************)
\* the 32 bytes of a compressed point or of a scalar's encoding
as_bytes(x) == <<x>> \o [i \in 1..31 |-> <<>>]

\* util::read32: the array of the first 32 bytes of the slice
read32(slice) ==
    IF \A i \in 2..32 : slice[i] = <<>> THEN slice[1] ELSE <<2, 0>>

\* the slice from byte offset off (from 0) on: &slice[off..]
SliceFrom(slice, off) == SubSeq(slice, off + 1, Len(slice))

RECURSIVE IppBytes(_, _, _)
IppBytes(proof, j, acc) ==
    IF j > Len(proof.L_vec) THEN acc
    ELSE IppBytes(proof, j + 1,
                  acc \o as_bytes(proof.L_vec[j]) \o as_bytes(proof.R_vec[j]))

\* InnerProductProof::to_bytes_iter: L_0, R_0, ..., a, b
ipp_to_bytes(proof) ==
    IppBytes(proof, 1, <<>>) \o as_bytes(scalar_bytes(proof.a))
                             \o as_bytes(scalar_bytes(proof.b))

\* InnerProductProof::from_bytes(slice)
ipp_from_bytes(slice) ==
    LET b == Len(slice)
        num_elements == b \div 32
        lg_n == (num_elements - 2) \div 2
        pos == 2 * lg_n * 32
        a == from_canonical_bytes(read32(SliceFrom(slice, pos)))
        bb == from_canonical_bytes(read32(SliceFrom(slice, pos + 32)))
    IN  IF b % 32 # 0 THEN [err |-> "FormatError"]
        ELSE IF num_elements < 2 THEN [err |-> "FormatError"]
        ELSE IF (num_elements - 2) % 2 # 0 THEN [err |-> "FormatError"]
        ELSE IF lg_n >= 32 THEN [err |-> "FormatError"]
        ELSE IF a = None \/ bb = None THEN [err |-> "FormatError"]
        ELSE [err |-> "Ok",
              proof |-> [L_vec |-> Vec([i \in 1..lg_n |->
                                read32(SliceFrom(slice, 2 * (i - 1) * 32))]),
                         R_vec |-> Vec([i \in 1..lg_n |->
                                read32(SliceFrom(slice, (2 * (i - 1) + 1) * 32))]),
                         a |-> a[1], b |-> bb[1]]]

\* to_bytes with e_blinding written before t_x_blinding
to_bytes_swapped(proof) ==
    as_bytes(proof.A) \o as_bytes(proof.S) \o as_bytes(proof.T_1)
        \o as_bytes(proof.T_2)
        \o as_bytes(scalar_bytes(proof.t_x))
        \o as_bytes(scalar_bytes(proof.e_blinding))
        \o as_bytes(scalar_bytes(proof.t_x_blinding))
        \o ipp_to_bytes(proof.ipp_proof)

\* RangeProof::to_bytes
to_bytes(proof) ==
    as_bytes(proof.A) \o as_bytes(proof.S) \o as_bytes(proof.T_1)
        \o as_bytes(proof.T_2)
        \o as_bytes(scalar_bytes(proof.t_x))
        \o as_bytes(scalar_bytes(proof.t_x_blinding))
        \o as_bytes(scalar_bytes(proof.e_blinding))
        \o ipp_to_bytes(proof.ipp_proof)

\* from_bytes that reads T_2 where T_1 is
from_bytes_offset(slice) ==
    IF Len(slice) % 32 # 0 THEN [err |-> "FormatError"]
    ELSE IF Len(slice) < 7 * 32 THEN [err |-> "FormatError"]
    ELSE
      LET A == read32(SliceFrom(slice, 0 * 32))
          S == read32(SliceFrom(slice, 1 * 32))
          T_1 == read32(SliceFrom(slice, 2 * 32))
          T_2 == read32(SliceFrom(slice, 2 * 32))
          t_x == from_canonical_bytes(read32(SliceFrom(slice, 4 * 32)))
          t_x_blinding == from_canonical_bytes(read32(SliceFrom(slice, 5 * 32)))
          e_blinding == from_canonical_bytes(read32(SliceFrom(slice, 6 * 32)))
          ipp_proof == ipp_from_bytes(SliceFrom(slice, 7 * 32))
      IN  IF t_x = None THEN [err |-> "FormatError"]
          ELSE IF t_x_blinding = None THEN [err |-> "FormatError"]
          ELSE IF e_blinding = None THEN [err |-> "FormatError"]
          ELSE IF ipp_proof.err # "Ok" THEN [err |-> ipp_proof.err]
          ELSE [err |-> "Ok",
                proof |-> [A |-> A, S |-> S, T_1 |-> T_1, T_2 |-> T_2,
                           t_x |-> t_x[1], t_x_blinding |-> t_x_blinding[1],
                           e_blinding |-> e_blinding[1],
                           ipp_proof |-> ipp_proof.proof]]

\* from_bytes that reduces e_blinding modulo the order and never rejects it
from_bytes_mod_order(slice) ==
    IF Len(slice) % 32 # 0 THEN [err |-> "FormatError"]
    ELSE IF Len(slice) < 7 * 32 THEN [err |-> "FormatError"]
    ELSE
      LET A == read32(SliceFrom(slice, 0 * 32))
          S == read32(SliceFrom(slice, 1 * 32))
          T_1 == read32(SliceFrom(slice, 2 * 32))
          T_2 == read32(SliceFrom(slice, 3 * 32))
          t_x == from_canonical_bytes(read32(SliceFrom(slice, 4 * 32)))
          t_x_blinding == from_canonical_bytes(read32(SliceFrom(slice, 5 * 32)))
          e_blinding == <<read32(SliceFrom(slice, 6 * 32))[2] % Order>>
          ipp_proof == ipp_from_bytes(SliceFrom(slice, 7 * 32))
      IN  IF t_x = None THEN [err |-> "FormatError"]
          ELSE IF t_x_blinding = None THEN [err |-> "FormatError"]
          ELSE IF e_blinding = None THEN [err |-> "FormatError"]
          ELSE IF ipp_proof.err # "Ok" THEN [err |-> ipp_proof.err]
          ELSE [err |-> "Ok",
                proof |-> [A |-> A, S |-> S, T_1 |-> T_1, T_2 |-> T_2,
                           t_x |-> t_x[1], t_x_blinding |-> t_x_blinding[1],
                           e_blinding |-> e_blinding[1],
                           ipp_proof |-> ipp_proof.proof]]

\* from_bytes that decompresses A and rejects the bytes when it cannot
from_bytes_eager(slice) ==
    IF Len(slice) % 32 # 0 THEN [err |-> "FormatError"]
    ELSE IF Len(slice) < 7 * 32 THEN [err |-> "FormatError"]
    ELSE
      LET A == read32(SliceFrom(slice, 0 * 32))
          S == read32(SliceFrom(slice, 1 * 32))
          T_1 == read32(SliceFrom(slice, 2 * 32))
          T_2 == read32(SliceFrom(slice, 3 * 32))
          t_x == from_canonical_bytes(read32(SliceFrom(slice, 4 * 32)))
          t_x_blinding == from_canonical_bytes(read32(SliceFrom(slice, 5 * 32)))
          e_blinding == from_canonical_bytes(read32(SliceFrom(slice, 6 * 32)))
          ipp_proof == ipp_from_bytes(SliceFrom(slice, 7 * 32))
      IN  IF decompress(A) = None THEN [err |-> "FormatError"]
          ELSE IF t_x = None THEN [err |-> "FormatError"]
          ELSE IF t_x_blinding = None THEN [err |-> "FormatError"]
          ELSE IF e_blinding = None THEN [err |-> "FormatError"]
          ELSE IF ipp_proof.err # "Ok" THEN [err |-> ipp_proof.err]
          ELSE [err |-> "Ok",
                proof |-> [A |-> A, S |-> S, T_1 |-> T_1, T_2 |-> T_2,
                           t_x |-> t_x[1], t_x_blinding |-> t_x_blinding[1],
                           e_blinding |-> e_blinding[1],
                           ipp_proof |-> ipp_proof.proof]]

\* RangeProof::from_bytes(slice)
from_bytes(slice) ==
    IF Len(slice) % 32 # 0 THEN [err |-> "FormatError"]
    ELSE IF Len(slice) < 7 * 32 THEN [err |-> "FormatError"]
    ELSE
      LET A == read32(SliceFrom(slice, 0 * 32))
          S == read32(SliceFrom(slice, 1 * 32))
          T_1 == read32(SliceFrom(slice, 2 * 32))
          T_2 == read32(SliceFrom(slice, 3 * 32))
          t_x == from_canonical_bytes(read32(SliceFrom(slice, 4 * 32)))
          t_x_blinding == from_canonical_bytes(read32(SliceFrom(slice, 5 * 32)))
          e_blinding == from_canonical_bytes(read32(SliceFrom(slice, 6 * 32)))
          ipp_proof == ipp_from_bytes(SliceFrom(slice, 7 * 32))
      IN  IF t_x = None THEN [err |-> "FormatError"]
          ELSE IF t_x_blinding = None THEN [err |-> "FormatError"]
          ELSE IF e_blinding = None THEN [err |-> "FormatError"]
          ELSE IF ipp_proof.err # "Ok" THEN [err |-> ipp_proof.err]
          ELSE [err |-> "Ok",
                proof |-> [A |-> A, S |-> S, T_1 |-> T_1, T_2 |-> T_2,
                           t_x |-> t_x[1], t_x_blinding |-> t_x_blinding[1],
                           e_blinding |-> e_blinding[1],
                           ipp_proof |-> ipp_proof.proof]]

(***************************************************************************)
(* The state: one call of RangeProof::prove_multiple_with_rng, step by     *)
(* step through the Party/Dealer protocol it drives (the same calls the    *)
(* tests of the MPC protocol make), then to_bytes, from_bytes and the      *)
(* verification of the proof.                                              *)
(***************************************************************************)
VARIABLES
    gens,               \* bp_gens (with pc_gens): gens_capacity, party_capacity
    n,                  \* the bitsize argument
    values,             \* the values argument
    blindings,          \* the blindings argument
    label,              \* the label of the prover's transcript
    transcript,         \* the prover's transcript
    rng,                \* the rng
    pc,                 \* the position of the run
    dealer,             \* the dealer, in its current state
    parties,            \* the parties, in their current states
    bit_commitments,    \* Vec<BitCommitment>
    bit_challenge,      \* BitChallenge
    poly_commitments,   \* Vec<PolyCommitment>
    poly_challenge,     \* PolyChallenge
    proof_shares,       \* the Result of every party's last apply_challenge
    result,             \* the Result of the run: err, proof, value_commitments
    wire,               \* the bytes of the proof, as sent to the verifier
    decoded,            \* the Result of from_bytes
    view,               \* the verifier's transcript label and commitments
    verdict,            \* the Result of the verification
    batch,              \* the views handed to verify_batch_with_rng
    remaining,          \* the views its loop has not yet taken
    collector,          \* its BatchCollector
    alone,              \* the Result of verify_multiple for views of the batch
    delta_call,         \* a call of delta: its arguments, then its result
    replay              \* add_proof's challenges, scalars and batch factor

vars == <<gens, n, values, blindings, label, transcript, rng, pc, dealer,
          parties, bit_commitments, bit_challenge, poly_commitments,
          poly_challenge, proof_shares, result, wire, decoded, view, verdict,
          batch, remaining, collector, alone, delta_call, replay>>

verifierVars == <<wire, decoded, view, verdict>>
batchVars == <<batch, remaining, collector, alone>>
proverVars == <<n, values, blindings, label, transcript, dealer, parties,
                bit_commitments, bit_challenge, poly_commitments,
                poly_challenge, proof_shares, result>>

\* bounds of the inputs
MaxParties == 4
Seed == 77
NumLabels == 2

Generators ==
    {[gens_capacity |-> 8, party_capacity |-> 4],
     [gens_capacity |-> 16, party_capacity |-> 2]}
Bitsizes == {8, 16}
ValueSet == {255, 256}
BlindingSet == {5}

Init ==
    /\ gens \in Generators
    /\ n \in Bitsizes
    /\ \E m \in 1..MaxParties : values \in [1..m -> ValueSet]
    /\ \E b \in BlindingSet :
          blindings = [j \in 1..Len(values) |-> ScMul(b, j)]
    /\ label = 1
    /\ transcript = TranscriptNew(label)
    /\ rng = Seed
    /\ pc = "start"
    /\ dealer = None
    /\ parties = <<>>
    /\ bit_commitments = <<>>
    /\ bit_challenge = None
    /\ poly_commitments = <<>>
    /\ poly_challenge = None
    /\ proof_shares = <<>>
    /\ result = None
    /\ wire = <<>>
    /\ decoded = None
    /\ view = None
    /\ verdict = None
    /\ batch = <<>>
    /\ remaining = <<>>
    /\ collector = None
    /\ alone = <<>>
    /\ delta_call = None /\ replay = None

\* the run returns Err(e)
Fail(e) ==
    /\ pc' = "failed"
    /\ result' = [err |-> e]

\* the first error of a vector of Results (collect::<Result<Vec<_>, _>>)
FirstErr(rs) == rs[CHOOSE j \in 1..Len(rs) :
                      rs[j].err # "Ok" /\ \A k \in 1..(j - 1) : rs[k].err = "Ok"].err

\* the start of prove_multiple_with_rng with Dealer::new called before the
\* lengths are compared
ProveStartDealerFirst ==
    /\ pc = "start"
    /\ LET m == Len(values)
           d == DealerNew(gens, transcript, n, m)
           ps == [j \in 1..m |-> PartyNew(gens, values[j], blindings[j], n)]
       IN  IF d.err # "Ok"
           THEN Fail(d.err) /\ transcript' = d.t /\ UNCHANGED <<dealer, parties>>
           ELSE IF Len(values) # Len(blindings)
           THEN Fail("WrongNumBlindingFactors") /\ transcript' = d.t
                /\ UNCHANGED <<dealer, parties>>
           ELSE /\ pc' = "position"
                /\ dealer' = d.dealer
                /\ transcript' = d.t
                /\ parties' = Vec([j \in 1..m |-> ps[j].party])
                /\ UNCHANGED result
    /\ UNCHANGED <<gens, n, values, blindings, label, rng, bit_commitments,
                   bit_challenge, poly_commitments, poly_challenge, proof_shares>>
    /\ UNCHANGED verifierVars
    /\ UNCHANGED batchVars
    /\ UNCHANGED <<delta_call, replay>>

\* prove_multiple_with_rng, lines 271-282: the length check, Dealer::new,
\* Party::new for every value
ProveStart ==
    /\ pc = "start"
    /\ LET m == Len(values)
           d == DealerNew(gens, transcript, n, m)
           ps == [j \in 1..m |-> PartyNew(gens, values[j], blindings[j], n)]
       IN  IF Len(values) # Len(blindings)
           THEN Fail("WrongNumBlindingFactors")
                /\ UNCHANGED <<transcript, dealer, parties>>
           ELSE IF d.err # "Ok"
           THEN Fail(d.err) /\ transcript' = d.t /\ UNCHANGED <<dealer, parties>>
           ELSE IF \E j \in 1..m : ps[j].err # "Ok"
           THEN Fail(FirstErr(ps)) /\ transcript' = d.t
                /\ UNCHANGED <<dealer, parties>>
           ELSE /\ pc' = "position"
                /\ dealer' = d.dealer
                /\ transcript' = d.t
                /\ parties' = Vec([j \in 1..m |-> ps[j].party])
                /\ UNCHANGED result
    /\ UNCHANGED <<gens, n, values, blindings, label, rng, bit_commitments,
                   bit_challenge, poly_commitments, poly_challenge, proof_shares>>
    /\ UNCHANGED verifierVars
    /\ UNCHANGED batchVars
    /\ UNCHANGED <<delta_call, replay>>

\* the parties' calls of assign_position_with_rng in the order of their
\* positions, each drawing from the rng after the party before it
RECURSIVE AssignAll(_, _, _, _, _, _)
AssignAll(g, ps, j, r, outp, outc) ==
    IF j > Len(ps) THEN [parties |-> outp, bit_commitments |-> outc, rng |-> r]
    ELSE LET a == assign_position(g, ps[j], j - 1, r)
         IN  AssignAll(g, ps, j + 1, a.rng, Append(outp, a.party),
                       Append(outc, a.bit_commitment))

\* the parties' calls with every party told it is the first (position 0)
AssignPositionsAllFirst ==
    /\ pc = "position"
    /\ \E a \in {AssignAll(gens, parties, 1, rng, <<>>, <<>>)} :
           /\ parties' = Vec([j \in 1..Len(a.parties) |->
                                [a.parties[j] EXCEPT !.j = 0]])
           /\ bit_commitments' = a.bit_commitments
           /\ rng' = a.rng
    /\ pc' = "bit_commitments"
    /\ UNCHANGED <<gens, n, values, blindings, label, transcript, dealer,
                   bit_challenge, poly_commitments, poly_challenge,
                   proof_shares, result>>
    /\ UNCHANGED verifierVars
    /\ UNCHANGED batchVars
    /\ UNCHANGED <<delta_call, replay>>

\* lines 284-293
AssignPositions ==
    /\ pc = "position"
    /\ \E a \in {AssignAll(gens, parties, 1, rng, <<>>, <<>>)} :
           /\ parties' = a.parties
           /\ bit_commitments' = a.bit_commitments
           /\ rng' = a.rng
    /\ pc' = "bit_commitments"
    /\ UNCHANGED <<gens, n, values, blindings, label, transcript, dealer,
                   bit_challenge, poly_commitments, poly_challenge,
                   proof_shares, result>>
    /\ UNCHANGED verifierVars
    /\ UNCHANGED batchVars
    /\ UNCHANGED <<delta_call, replay>>

\* line 295
ReceiveBitCommitments ==
    /\ pc = "bit_commitments"
    /\ \E r \in {receive_bit_commitments(dealer, transcript, bit_commitments)} :
           IF r.err # "Ok"
           THEN Fail(r.err) /\ UNCHANGED <<dealer, transcript, bit_challenge>>
           ELSE /\ pc' = "bit_challenge"
                /\ dealer' = r.dealer
                /\ transcript' = r.t
                /\ bit_challenge' = r.bit_challenge
                /\ UNCHANGED result
    /\ UNCHANGED <<gens, n, values, blindings, label, rng, parties,
                   bit_commitments, poly_commitments, poly_challenge,
                   proof_shares>>
    /\ UNCHANGED verifierVars
    /\ UNCHANGED batchVars
    /\ UNCHANGED <<delta_call, replay>>

RECURSIVE ChallengeAll(_, _, _, _, _, _, _)
ChallengeAll(g, ps, vc, j, r, outp, outc) ==
    IF j > Len(ps) THEN [parties |-> outp, poly_commitments |-> outc, rng |-> r]
    ELSE LET a == apply_bit_challenge(g, ps[j], vc, r)
         IN  ChallengeAll(g, ps, vc, j + 1, a.rng, Append(outp, a.party),
                          Append(outc, a.poly_commitment))

\* lines 297-300
ApplyBitChallenge ==
    /\ pc = "bit_challenge"
    /\ \E a \in {ChallengeAll(gens, parties, bit_challenge, 1, rng, <<>>, <<>>)} :
           /\ parties' = a.parties
           /\ poly_commitments' = a.poly_commitments
           /\ rng' = a.rng
    /\ pc' = "poly_commitments"
    /\ UNCHANGED <<gens, n, values, blindings, label, transcript, dealer,
                   bit_commitments, bit_challenge, poly_challenge,
                   proof_shares, result>>
    /\ UNCHANGED verifierVars
    /\ UNCHANGED batchVars
    /\ UNCHANGED <<delta_call, replay>>

\* line 302
ReceivePolyCommitments ==
    /\ pc = "poly_commitments"
    /\ \E r \in {receive_poly_commitments(dealer, transcript, poly_commitments)} :
           IF r.err # "Ok"
           THEN Fail(r.err) /\ UNCHANGED <<dealer, transcript, poly_challenge>>
           ELSE /\ pc' = "poly_challenge"
                /\ dealer' = r.dealer
                /\ transcript' = r.t
                /\ poly_challenge' = r.poly_challenge
                /\ UNCHANGED result
    /\ UNCHANGED <<gens, n, values, blindings, label, rng, parties,
                   bit_commitments, bit_challenge, poly_commitments,
                   proof_shares>>
    /\ UNCHANGED verifierVars
    /\ UNCHANGED batchVars
    /\ UNCHANGED <<delta_call, replay>>

\* lines 304-308
ApplyPolyChallenge ==
    /\ pc = "poly_challenge"
    /\ \E rs \in {Vec([j \in 1..Len(parties) |->
                        apply_poly_challenge(parties[j], poly_challenge)])} :
           /\ proof_shares' = rs
           /\ IF \E j \in 1..Len(rs) : rs[j].err # "Ok"
              THEN Fail(FirstErr(rs))
              ELSE pc' = "shares" /\ UNCHANGED result
    /\ UNCHANGED <<gens, n, values, blindings, label, transcript, rng, dealer,
                   parties, bit_commitments, bit_challenge, poly_commitments,
                   poly_challenge>>
    /\ UNCHANGED verifierVars
    /\ UNCHANGED batchVars
    /\ UNCHANGED <<delta_call, replay>>

\* lines 310-312
ReceiveTrustedShares ==
    /\ pc = "shares"
    /\ \E r \in {receive_trusted_shares(gens, dealer, transcript,
                    [j \in 1..Len(proof_shares) |-> proof_shares[j].share])} :
           IF r.err # "Ok"
           THEN Fail(r.err) /\ UNCHANGED transcript
           ELSE /\ pc' = "proved"
                /\ transcript' = r.t
                /\ result' = [err |-> "Ok", proof |-> r.proof,
                              value_commitments |->
                                  Vec([j \in 1..Len(bit_commitments) |->
                                          bit_commitments[j].V_j])]
    /\ UNCHANGED <<gens, n, values, blindings, label, rng, dealer, parties,
                   bit_commitments, bit_challenge, poly_commitments,
                   poly_challenge, proof_shares>>
    /\ UNCHANGED verifierVars
    /\ UNCHANGED batchVars
    /\ UNCHANGED <<delta_call, replay>>

\* tests::detect_dishonest_dealer_during_aggregation, line 1085: a malicious
\* dealer sends the parties the poly challenge x = 0
ForgePolyChallenge ==
    /\ pc = "poly_challenge"
    /\ poly_challenge.x # 0
    /\ poly_challenge' = [x |-> 0]
    /\ UNCHANGED <<gens, n, values, blindings, label, transcript, rng, pc,
                   dealer, parties, bit_commitments, bit_challenge,
                   poly_commitments, proof_shares, result>>
    /\ UNCHANGED verifierVars
    /\ UNCHANGED batchVars
    /\ UNCHANGED <<delta_call, replay>>

\* tests::detect_dishonest_party_during_aggregation, line 1038: the dealer
\* takes the shares as untrusted
ReceiveShares ==
    /\ pc = "shares"
    /\ result' = receive_shares(gens, dealer, transcript,
                    [j \in 1..Len(proof_shares) |-> proof_shares[j].share], rng)
    /\ pc' = "received"
    /\ UNCHANGED <<gens, n, values, blindings, label, transcript, rng, dealer,
                   parties, bit_commitments, bit_challenge, poly_commitments,
                   poly_challenge, proof_shares>>
    /\ UNCHANGED verifierVars
    /\ UNCHANGED batchVars
    /\ UNCHANGED <<delta_call, replay>>

\* the proof is serialised: proof.to_bytes()
ToBytes ==
    /\ pc = "proved"
    /\ wire' = to_bytes(result.proof)
    /\ pc' = "encoded"
    /\ UNCHANGED <<gens, n, values, blindings, label, transcript, rng, dealer,
                   parties, bit_commitments, bit_challenge, poly_commitments,
                   poly_challenge, proof_shares, result, decoded, view, verdict>>
    /\ UNCHANGED batchVars
    /\ UNCHANGED <<delta_call, replay>>

\* the positions (from 0) of the 32-byte elements of a proof's bytes that
\* hold points: A, S, T_1, T_2 and every L_j, R_j
PointElements(bytes) ==
    (0..3) \cup {e \in 7..((Len(bytes) \div 32) - 3) : TRUE}

\* 32 bytes that are not the encoding of a point
InvalidPoint == <<2, 0>>

\* the bytes are changed on their way: one point of the proof is replaced by
\* 32 bytes that do not decompress
CorruptPoint ==
    /\ pc = "encoded"
    /\ \E e \in PointElements(wire) :
          wire' = [wire EXCEPT ![32 * e + 1] = InvalidPoint]
    /\ pc' = "corrupted"
    /\ UNCHANGED <<gens, n, values, blindings, label, transcript, rng, dealer,
                   parties, bit_commitments, bit_challenge, poly_commitments,
                   poly_challenge, proof_shares, result, decoded, view, verdict>>
    /\ UNCHANGED batchVars
    /\ UNCHANGED <<delta_call, replay>>

\* RangeProof::from_bytes(&bytes)
FromBytes ==
    /\ pc \in {"encoded", "corrupted", "bytes"}
    /\ decoded' = from_bytes(wire)
    /\ pc' = "decoded"
    /\ UNCHANGED <<gens, n, values, blindings, label, transcript, rng, dealer,
                   parties, bit_commitments, bit_challenge, poly_commitments,
                   poly_challenge, proof_shares, result, wire, view, verdict>>
    /\ UNCHANGED batchVars
    /\ UNCHANGED <<delta_call, replay>>

\* the commitments a verifier may hold in place of V_j: a commitment to
\* another value, and 32 bytes that do not decompress
OtherCommitments(j) ==
    {compress(commit(gens, ScFrom(values[j] + 1), blindings[j])), InvalidPoint}

\* what the verifier holds: the prover's transcript label and commitments, or
\* another label, or one other commitment
VerifierInputs ==
    {[label |-> l, value_commitments |-> result.value_commitments] :
        l \in 1..NumLabels}
    \cup
    UNION {{[label |-> label,
             value_commitments |-> [result.value_commitments EXCEPT ![j] = c]] :
                c \in OtherCommitments(j)} : j \in 1..Len(values)}

\* proof.verify_multiple_with_rng(bp_gens, pc_gens, transcript,
\* value_commitments, n, rng) of the proof read from the bytes
Verify ==
    /\ pc = "decoded"
    /\ decoded.err = "Ok"
    /\ \E inp \in VerifierInputs :
          /\ \/ inp.label = label
                /\ inp.value_commitments = result.value_commitments
             \/ decoded.proof = result.proof
          /\ view' = inp
          /\ \E v \in {verify_multiple(decoded.proof, gens,
                          TranscriptNew(inp.label), inp.value_commitments, n, rng)} :
                verdict' = v.err /\ rng' = v.rng
    /\ pc' = "verified"
    /\ UNCHANGED <<gens, n, values, blindings, label, transcript, dealer,
                   parties, bit_commitments, bit_challenge, poly_commitments,
                   poly_challenge, proof_shares, result, wire, decoded>>
    /\ UNCHANGED batchVars
    /\ UNCHANGED <<delta_call, replay>>

(***************************************************************************)
(* Batches: RangeProof::verify_batch_with_rng over views of proofs made by *)
(* prove_multiple_with_rng, and verify_multiple_with_rng of each view.     *)
(***************************************************************************)
\* bounds of the batches
MaxBatch == 2

BatchGens == [gens_capacity |-> 16, party_capacity |-> 2]

\* the proofs a batch is made of: bitsize and values of the proof, and the
\* label of the transcript the verifier's view carries (the prover's is 1)
BatchInputs ==
    {[n |-> 8, values |-> <<255>>, label |-> l] : l \in 1..NumLabels}
    \cup {[n |-> 8, values |-> <<256>>, label |-> 1],
          [n |-> 16, values |-> <<255, 256>>, label |-> 1]}

InitBatch ==
    /\ gens = BatchGens
    /\ rng = Seed
    /\ pc = "batch"
    /\ batch = <<>>
    /\ remaining = <<>>
    /\ collector = None
    /\ alone = <<>>
    /\ verdict = None
    /\ n = 0 /\ values = <<>> /\ blindings = <<>> /\ label = 1
    /\ transcript = None /\ dealer = None /\ parties = <<>>
    /\ bit_commitments = <<>> /\ bit_challenge = None
    /\ poly_commitments = <<>> /\ poly_challenge = None
    /\ proof_shares = <<>> /\ result = None
    /\ wire = <<>> /\ decoded = None /\ view = None
    /\ delta_call = None /\ replay = None

\* a call of prove_multiple_with_rng starts, for a proof that will join the
\* batch; the view of the proof will carry a transcript of label inp.label
BatchProve ==
    /\ pc = "batch"
    /\ Len(batch) < MaxBatch
    /\ \E inp \in BatchInputs :
          /\ n' = inp.n
          /\ values' = inp.values
          /\ blindings' = [j \in 1..Len(inp.values) |-> ScMul(5, j)]
          /\ view' = [label |-> inp.label]
    /\ transcript' = TranscriptNew(label)
    /\ pc' = "start"
    /\ UNCHANGED <<gens, label, rng, dealer, parties, bit_commitments,
                   bit_challenge, poly_commitments, poly_challenge,
                   proof_shares, result, wire, decoded, verdict>>
    /\ UNCHANGED batchVars
    /\ UNCHANGED <<delta_call, replay>>

\* the view of the proof made joins the batch
BatchPush ==
    /\ pc = "proved"
    /\ batch' = Append(batch,
           verification_view(result.proof, TranscriptNew(view.label),
                             result.value_commitments, n))
    /\ pc' = "batch"
    /\ UNCHANGED <<gens, rng, remaining, collector, alone, verdict, wire,
                   decoded, view>>
    /\ UNCHANGED proverVars
    /\ UNCHANGED <<delta_call, replay>>

\* the batch is complete
BatchClose ==
    /\ pc = "batch"
    /\ pc' = "alone"
    /\ UNCHANGED <<gens, rng, batch, remaining, collector, alone, verdict,
                   wire, decoded, view>>
    /\ UNCHANGED proverVars
    /\ UNCHANGED <<delta_call, replay>>

\* verify_multiple_with_rng of the next view of the batch, alone
VerifyAlone ==
    /\ pc = "alone"
    /\ Len(alone) < Len(batch)
    /\ \E el \in {batch[Len(alone) + 1]} :
       \E v \in {verify_multiple(el.proof, gens, el.transcript,
                                  el.value_commitments, el.n, rng)} :
           alone' = Append(alone, v.err) /\ rng' = v.rng
    /\ UNCHANGED <<gens, pc, batch, remaining, collector, verdict, wire,
                   decoded, view>>
    /\ UNCHANGED proverVars
    /\ UNCHANGED <<delta_call, replay>>

\* verify_batch_with_rng, line 438: BatchCollector::new
BatchStart ==
    /\ pc = "alone"
    /\ Len(alone) = Len(batch)
    /\ collector' = BatchCollectorNew
    /\ remaining' = batch
    /\ pc' = "collect"
    /\ UNCHANGED <<gens, rng, batch, alone, verdict, wire, decoded, view>>
    /\ UNCHANGED proverVars
    /\ UNCHANGED <<delta_call, replay>>

\* lines 439-441: collector.add_proof(el, rng)? for the next el of the batch
BatchAddProof ==
    /\ pc = "collect"
    /\ remaining # <<>>
    /\ \E r \in {add_proof(collector, gens, Head(remaining), rng)} :
           /\ collector' = r.col
           /\ rng' = r.rng
           /\ IF r.err # "Ok"
              THEN verdict' = r.err /\ pc' = "done"
              ELSE UNCHANGED <<verdict, pc>>
    /\ remaining' = Tail(remaining)
    /\ UNCHANGED <<gens, batch, alone, wire, decoded, view>>
    /\ UNCHANGED proverVars
    /\ UNCHANGED <<delta_call, replay>>

\* line 443: collector.verify()
BatchVerify ==
    /\ pc = "collect"
    /\ remaining = <<>>
    /\ verdict' = verify(collector, gens)
    /\ pc' = "done"
    /\ UNCHANGED <<gens, rng, batch, remaining, collector, alone, wire, decoded,
                   view>>
    /\ UNCHANGED proverVars
    /\ UNCHANGED <<delta_call, replay>>

NextBatch ==
    \/ BatchProve
    \/ ProveStart
    \/ AssignPositions
    \/ ReceiveBitCommitments
    \/ ApplyBitChallenge
    \/ ReceivePolyCommitments
    \/ ApplyPolyChallenge
    \/ ReceiveTrustedShares
    \/ BatchPush
    \/ BatchClose
    \/ VerifyAlone
    \/ BatchStart
    \/ BatchAddProof
    \/ BatchVerify

SpecBatch == InitBatch /\ [][NextBatch]_vars

(***************************************************************************)
(* Batches verified under rngs of the verifier's own: the batch factors    *)
(* that add_proof draws vary from one call of verify_batch_with_rng to     *)
(* another, and a batch may hold the same view more than once.             *)
(***************************************************************************)
\* a state of the rng from which two calls of Scalar::random in a row return
\* r and -r
CancellingSeed == 58634

\* the states of the rng a verifier may call verify_batch_with_rng with
VerifierRngs == {Seed, CancellingSeed}

\* the view that joined the batch last joins it once more
BatchRepeat ==
    /\ pc = "batch"
    /\ batch # <<>>
    /\ Len(batch) < MaxBatch
    /\ batch' = Append(batch, batch[Len(batch)])
    /\ UNCHANGED <<gens, rng, pc, remaining, collector, alone, verdict, wire,
                   decoded, view>>
    /\ UNCHANGED proverVars
    /\ UNCHANGED <<delta_call, replay>>

\* verify_batch_with_rng(batch, bp_gens, pc_gens, rng) with an rng of the
\* verifier's; line 438: BatchCollector::new
BatchStartRng ==
    /\ pc = "alone"
    /\ Len(alone) = Len(batch)
    /\ rng' \in VerifierRngs
    /\ collector' = BatchCollectorNew
    /\ remaining' = batch
    /\ pc' = "collect"
    /\ UNCHANGED <<gens, batch, alone, verdict, wire, decoded, view>>
    /\ UNCHANGED proverVars
    /\ UNCHANGED <<delta_call, replay>>

NextFactors ==
    \/ BatchProve
    \/ ProveStart
    \/ AssignPositions
    \/ ReceiveBitCommitments
    \/ ApplyBitChallenge
    \/ ReceivePolyCommitments
    \/ ApplyPolyChallenge
    \/ ReceiveTrustedShares
    \/ BatchPush
    \/ BatchRepeat
    \/ BatchClose
    \/ VerifyAlone
    \/ BatchStartRng
    \/ BatchAddProof
    \/ BatchVerify

SpecFactors == InitBatch /\ [][NextFactors]_vars

(***************************************************************************)
(* RangeProof::from_bytes on byte strings of any length and content.       *)
(***************************************************************************)
\* bounds of the byte strings: the number of whole 32-byte elements
MaxElements == 13

\* the numbers of bytes that may follow the last whole element
TrailingBytes == {0, 1, 31}

\* 32-byte arrays: the encoding of a point, a canonical scalar, the
\* little-endian encoding of the group order (not canonical)
SomePoint == compress(<<1, 0>>)
CanonicalScalar == scalar_bytes(3)
NonCanonicalScalar == <<1, Order>>

\* the positions (from 0) of the elements of an e-element string that
\* from_bytes reads as scalars: t_x, t_x_blinding, e_blinding, a, b
ScalarElements(e) == {4, 5, 6} \cup {k \in {e - 2, e - 1} : k >= 7}

\* e elements laid out as a proof is, element p (when p < e) replaced by x,
\* followed by r more bytes
ByteString(e, p, x, r) ==
    LET elem(k) == IF k = p THEN x
                   ELSE IF k \in ScalarElements(e) THEN CanonicalScalar
                   ELSE SomePoint
    IN  [c \in 1..(32 * e + r) |->
            IF c <= 32 * e /\ (c - 1) % 32 = 0 THEN elem((c - 1) \div 32)
            ELSE <<>>]

ByteStrings ==
    {ByteString(e, e, <<>>, r) : e \in 0..MaxElements, r \in TrailingBytes}
    \cup UNION {{ByteString(e, p, x, r) :
                    p \in 0..(e - 1), x \in {NonCanonicalScalar, InvalidPoint}} :
                e \in 0..MaxElements, r \in TrailingBytes}

InitBytes ==
    /\ wire \in ByteStrings
    /\ pc = "bytes"
    /\ decoded = None
    /\ view = None /\ verdict = None
    /\ gens = BatchGens /\ rng = Seed
    /\ batch = <<>> /\ remaining = <<>> /\ collector = None /\ alone = <<>>
    /\ n = 0 /\ values = <<>> /\ blindings = <<>> /\ label = 1
    /\ transcript = None /\ dealer = None /\ parties = <<>>
    /\ bit_commitments = <<>> /\ bit_challenge = None
    /\ poly_commitments = <<>> /\ poly_challenge = None
    /\ proof_shares = <<>> /\ result = None
    /\ delta_call = None /\ replay = None

NextBytes == FromBytes

SpecBytes == InitBytes /\ [][NextBytes]_vars

(***************************************************************************)
(* RangeProof::prove_multiple_with_rng on arguments of any kind: lengths   *)
(* of values and blindings that differ, bitsizes and aggregation sizes     *)
(* that are not supported, generators that are too small.                  *)
(***************************************************************************)
\* the bitsizes given: supported ones, and in 65 one that is not
ParamBitsizes == {8, 16, 32, 65}

InitParams ==
    /\ gens \in Generators
    /\ n \in ParamBitsizes
    /\ \E m \in 0..MaxParties : values \in [1..m -> ValueSet]
    /\ \E k \in 0..MaxParties : blindings = [j \in 1..k |-> ScMul(5, j)]
    /\ label = 1
    /\ transcript = TranscriptNew(label)
    /\ rng = Seed
    /\ pc = "start"
    /\ dealer = None /\ parties = <<>>
    /\ bit_commitments = <<>> /\ bit_challenge = None
    /\ poly_commitments = <<>> /\ poly_challenge = None
    /\ proof_shares = <<>> /\ result = None
    /\ wire = <<>> /\ decoded = None /\ view = None /\ verdict = None
    /\ batch = <<>> /\ remaining = <<>> /\ collector = None /\ alone = <<>>
    /\ delta_call = None /\ replay = None

NextParams == ProveStart

SpecParams == InitParams /\ [][NextParams]_vars

(***************************************************************************)
(* BatchCollector::add_proof on views of any kind, one call after another   *)
(* on the same collector, and BatchCollector::verify.                       *)
(***************************************************************************)
\* bound: the number of proofs a collector takes
MaxAdds == 2

\* the bitsizes of the views: supported ones, and in 65 one that is not
ViewBitsizes == {8, 16, 32, 65}

\* the points of a proof that add_proof validates before appending them
ProofPoints == {"A", "S", "T_1", "T_2"}

\* the number of rounds of the inner product proof of a view: lg(n * m) when
\* n * m is a power of two
ViewRounds(nn, m) == IF nn * m >= 1 THEN Lg(nn * m) ELSE 0

ViewPoint(g, k) == compress(Vec(Unit(g, k)))

\* a view of bitsize nn with m commitments; its proof holds points and
\* scalars of the right kind and number, the point named by bad being the
\* identity
ViewOf(g, nn, m, bad) ==
    [proof |->
        [A |-> IF bad = "A" THEN compress(Vec(Identity(g))) ELSE ViewPoint(g, 3),
         S |-> IF bad = "S" THEN compress(Vec(Identity(g))) ELSE ViewPoint(g, 4),
         T_1 |-> IF bad = "T_1" THEN compress(Vec(Identity(g)))
                 ELSE ViewPoint(g, 5),
         T_2 |-> IF bad = "T_2" THEN compress(Vec(Identity(g)))
                 ELSE ViewPoint(g, 6),
         t_x |-> 11, t_x_blinding |-> 12, e_blinding |-> 13,
         ipp_proof |->
            [L_vec |-> Vec([j \in 1..ViewRounds(nn, m) |-> ViewPoint(g, 6 + j)]),
             R_vec |-> Vec([j \in 1..ViewRounds(nn, m) |-> ViewPoint(g, 14 + j)]),
             a |-> 14, b |-> 15]],
     transcript |-> TranscriptNew(1),
     value_commitments |->
        Vec([j \in 1..m |-> compress(Vec(commit(g, 7 + j, 3)))]),
     n |-> nn]

CollectorViews(g) ==
    {ViewOf(g, nn, m, "none") : nn \in ViewBitsizes, m \in 0..MaxParties}
    \cup {ViewOf(g, 8, m, bad) : m \in {1, 2}, bad \in ProofPoints}

InitCollector ==
    /\ gens \in Generators
    /\ rng = Seed
    /\ collector = BatchCollectorNew
    /\ pc = "collector"
    /\ batch = <<>> /\ remaining = <<>> /\ alone = <<>>
    /\ view = None /\ verdict = None /\ replay = None
    /\ wire = <<>> /\ decoded = None
    /\ n = 0 /\ values = <<>> /\ blindings = <<>> /\ label = 1
    /\ transcript = None /\ dealer = None /\ parties = <<>>
    /\ bit_commitments = <<>> /\ bit_challenge = None
    /\ poly_commitments = <<>> /\ poly_challenge = None
    /\ proof_shares = <<>> /\ result = None
    /\ delta_call = None

\* a caller builds the view it will hand to add_proof
TakeView ==
    /\ pc \in {"collector", "added"}
    /\ Len(batch) < MaxAdds
    /\ view' \in CollectorViews(gens)
    /\ verdict' = None
    /\ pc' = "view"
    /\ UNCHANGED <<gens, rng, wire, decoded, replay, delta_call>>
    /\ UNCHANGED batchVars
    /\ UNCHANGED proverVars

\* add_proof with the batch factor drawn from the rng as the call starts,
\* before its checks
AddProofDrawingFirst ==
    /\ pc = "view"
    /\ \E r \in {add_proof(collector, gens, view, rng)} :
           /\ collector' = r.col
           /\ rng' = ScalarRandom(rng)[2]
           /\ verdict' = r.err
           /\ view' = [view EXCEPT !.transcript = r.t]
           /\ IF r.err = "Ok"
              THEN batch' = Append(batch, view) /\ replay' = r.locals
              ELSE UNCHANGED <<batch, replay>>
    /\ pc' = "added"
    /\ UNCHANGED <<gens, wire, decoded, remaining, alone, delta_call>>
    /\ UNCHANGED proverVars

\* collector.add_proof(view, rng): the Result in verdict, the view's
\* transcript as the call leaves it; batch holds the views added
AddProof ==
    /\ pc = "view"
    /\ \E r \in {add_proof(collector, gens, view, rng)} :
           /\ collector' = r.col
           /\ rng' = r.rng
           /\ verdict' = r.err
           /\ view' = [view EXCEPT !.transcript = r.t]
           /\ IF r.err = "Ok"
              THEN batch' = Append(batch, view) /\ replay' = r.locals
              ELSE UNCHANGED <<batch, replay>>
    /\ pc' = "added"
    /\ UNCHANGED <<gens, wire, decoded, remaining, alone, delta_call>>
    /\ UNCHANGED proverVars

\* collector.verify()
CollectorVerify ==
    /\ pc \in {"collector", "added"}
    /\ verdict' = verify(collector, gens)
    /\ pc' = "verified"
    /\ UNCHANGED <<gens, rng, wire, decoded, view, replay, delta_call>>
    /\ UNCHANGED batchVars
    /\ UNCHANGED proverVars

NextCollector ==
    \/ TakeView
    \/ AddProof
    \/ CollectorVerify

SpecCollector == InitCollector /\ [][NextCollector]_vars

(***************************************************************************)
(* The aggregation size on both sides: prove_multiple_with_rng on any      *)
(* arguments, and add_proof on any views.                                  *)
(***************************************************************************)
InitSizes == InitParams \/ InitCollector

NextSizes ==
    \/ ProveStart
    \/ TakeView
    \/ AddProof
    \/ CollectorVerify

SpecSizes == InitSizes /\ [][NextSizes]_vars

(***************************************************************************)
(* Proofs for parties whose value and blinding may both be zero, so that   *)
(* their commitment V_j is the identity point: prove_multiple_with_rng,    *)
(* to_bytes, from_bytes, verify_multiple_with_rng.                         *)
(***************************************************************************)
\* the values and the blinding factors given: zero, and one that is not
ZeroValues == {0, 255}
ZeroBlindings == {0, 5}

ZeroGens == [gens_capacity |-> 8, party_capacity |-> 4]

InitZero ==
    /\ gens = ZeroGens
    /\ n = 8
    /\ \E m \in 1..MaxParties : values \in [1..m -> ZeroValues]
    /\ \E b \in ZeroBlindings :
          blindings = [j \in 1..Len(values) |-> ScMul(b, j)]
    /\ label = 1
    /\ transcript = TranscriptNew(label)
    /\ rng = Seed
    /\ pc = "start"
    /\ dealer = None /\ parties = <<>>
    /\ bit_commitments = <<>> /\ bit_challenge = None
    /\ poly_commitments = <<>> /\ poly_challenge = None
    /\ proof_shares = <<>> /\ result = None
    /\ wire = <<>> /\ decoded = None /\ view = None /\ verdict = None
    /\ batch = <<>> /\ remaining = <<>> /\ collector = None /\ alone = <<>>
    /\ delta_call = None /\ replay = None

NextZero ==
    \/ ProveStart
    \/ AssignPositions
    \/ ReceiveBitCommitments
    \/ ApplyBitChallenge
    \/ ReceivePolyCommitments
    \/ ApplyPolyChallenge
    \/ ReceiveTrustedShares
    \/ ToBytes
    \/ FromBytes
    \/ Verify

SpecZero == InitZero /\ [][NextZero]_vars

(***************************************************************************)
(* delta(n, m, y, z) against the sum computed power by power, as            *)
(* tests::test_delta computes it, for m parties.                            *)
(***************************************************************************)
\* bound of the calls of delta: the largest n (the powers of 2 and of y wrap
\* around the order from n = 16 on)
MaxDeltaBits == 256

\* the (n, m) and the scalars y, z of the calls
DeltaSizes == {<<1, 1>>, <<8, 1>>, <<8, 2>>, <<16, 2>>, <<3, 3>>,
               <<MaxDeltaBits, 1>>}
DeltaScalars == {0, 1, 2, 3, 12345, Order - 1}

\* test_delta, lines 789-791: the state before the loop (z3 is z^(j+3) for
\* the party j of the iteration, exp_2 the power of 2 of its bit)
DeltaCall(nn, m, y, z) ==
    [n |-> nn, m |-> m, y |-> y, z |-> z, i |-> 0,
     z2 |-> ScMul(z, z), z3 |-> ScMul(ScMul(z, z), z),
     power_g |-> 0, exp_y |-> 1, exp_2 |-> 1, out |-> None]

InitDelta ==
    /\ \E sz \in DeltaSizes : \E y \in DeltaScalars, z \in DeltaScalars :
          delta_call = DeltaCall(sz[1], sz[2], y, z)
    /\ pc = "delta_loop"
    /\ gens = BatchGens /\ rng = Seed
    /\ wire = <<>> /\ decoded = None /\ view = None /\ verdict = None
    /\ batch = <<>> /\ remaining = <<>> /\ collector = None /\ alone = <<>>
    /\ n = 0 /\ values = <<>> /\ blindings = <<>> /\ label = 1
    /\ transcript = None /\ dealer = None /\ parties = <<>>
    /\ bit_commitments = <<>> /\ bit_challenge = None
    /\ poly_commitments = <<>> /\ poly_challenge = None
    /\ proof_shares = <<>> /\ result = None
    /\ replay = None

nonDeltaVars == <<gens, n, values, blindings, label, transcript, rng, dealer,
                  parties, bit_commitments, bit_challenge, poly_commitments,
                  poly_challenge, proof_shares, result, wire, decoded, view,
                  verdict, batch, remaining, collector, alone, replay>>

\* test_delta, lines 792-797: one iteration of the loop; after the last bit
\* of a party the next party starts, with 2^0 and the next power of z
NaiveStep ==
    /\ pc = "delta_loop"
    /\ delta_call.i < delta_call.n * delta_call.m
    /\ \E d \in {delta_call} :
          delta_call' =
            [d EXCEPT
               !.power_g = ScAdd(d.power_g,
                                 ScSub(ScMul(ScSub(d.z, d.z2), d.exp_y),
                                       ScMul(d.z3, d.exp_2))),
               !.exp_y = ScMul(d.exp_y, d.y),
               !.exp_2 = IF (d.i + 1) % d.n = 0 THEN 1
                         ELSE ScAdd(d.exp_2, d.exp_2),
               !.z3 = IF (d.i + 1) % d.n = 0 THEN ScMul(d.z3, d.z) ELSE d.z3,
               !.i = d.i + 1]
    /\ UNCHANGED pc
    /\ UNCHANGED nonDeltaVars

\* test_delta, line 800: delta(n, m, &y, &z)
DeltaReturn ==
    /\ pc = "delta_loop"
    /\ delta_call.i = delta_call.n * delta_call.m
    /\ delta_call' = [delta_call EXCEPT
                        !.out = delta(delta_call.n, delta_call.m,
                                      delta_call.y, delta_call.z)]
    /\ pc' = "delta_done"
    /\ UNCHANGED nonDeltaVars

NextDelta ==
    \/ NaiveStep
    \/ DeltaReturn

SpecDelta == InitDelta /\ [][NextDelta]_vars

Next ==
    \/ ProveStart
    \/ AssignPositions
    \/ ReceiveBitCommitments
    \/ ApplyBitChallenge
    \/ ReceivePolyCommitments
    \/ ApplyPolyChallenge
    \/ ForgePolyChallenge
    \/ ReceiveTrustedShares
    \/ ReceiveShares
    \/ ToBytes
    \/ CorruptPoint
    \/ FromBytes
    \/ Verify

Spec == Init /\ [][Next]_vars


(***************************************************************************)
(* Properties                                                              *)
(***************************************************************************)
\* the arguments of the run are those of a proof that can be made
ParamsValid ==
    /\ n \in {8, 16, 32, 64}
    /\ Len(values) \in {1, 2, 4, 8}
    /\ gens.gens_capacity >= n
    /\ gens.party_capacity >= Len(values)
    /\ Len(blindings) = Len(values)

\* every value is in [0, 2^n)
InRange == \A j \in 1..Len(values) : values[j] >= 0 /\ values[j] < 2^n

\* the positions (from 0) of the values that are not in range, ascending
OutOfRange == BadList(Len(values), LAMBDA j : values[j + 1] >= 2^n)

\* the verifier was given the prover's proof, unchanged
ProofIntact == decoded.err = "Ok" /\ decoded.proof = result.proof

\* the verifier's transcript starts as the prover's did
SameTranscript == view.label = label

\* the verifier was given the commitments the prover returned
SameCommitments == view.value_commitments = result.value_commitments

\* element k (from 0) of a byte string of 32-byte elements
Element(bytes, k) == read32(SliceFrom(bytes, 32 * k))

\* a point of the decoded proof does not decompress
SomePointInvalid ==
    LET p == decoded.proof
    IN  \/ \E c \in {p.A, p.S, p.T_1, p.T_2} : decompress(c) = None
        \/ \E j \in 1..Len(p.ipp_proof.L_vec) :
              \/ decompress(p.ipp_proof.L_vec[j]) = None
              \/ decompress(p.ipp_proof.R_vec[j]) = None

\* C1: completeness.  With n in {8,16,32,64}, m in {1,2,4,8}, generators of
\* capacity at least n and m, values in [0, 2^n) and m blindings,
\* prove_multiple succeeds (the run fails only when the poly challenge was
\* replaced by x = 0), and the proof it returns, also after to_bytes and
\* from_bytes, verifies with Ok under a transcript of the same initial state,
\* the returned commitments and the same n.
C1_Completeness ==
    /\ (pc = "failed" /\ ParamsValid /\ InRange)
          => (result.err = "MaliciousDealer" /\ poly_challenge.x = 0)
    /\ (pc = "proved" /\ ParamsValid /\ InRange) => result.err = "Ok"
    /\ (pc = "decoded" /\ wire = to_bytes(result.proof)) => ProofIntact
    /\ (pc = "verified" /\ ParamsValid /\ InRange /\ ProofIntact
            /\ SameTranscript /\ SameCommitments)
          => verdict = "Ok"

\* a proof of four values was made, encoded, decoded and accepted
C1_Witness ==
    /\ pc = "verified" /\ verdict = "Ok"
    /\ Len(values) = 4 /\ ParamsValid /\ InRange
    /\ ProofIntact /\ SameTranscript /\ SameCommitments

\* C2: batch verification.  verify_batch returns Ok if and only if every
\* proof of the batch, verified alone by verify_multiple with its own
\* transcript, commitments and n, returns Ok; the proofs may differ in n and
\* in m, and a batch that holds a proof that does not verify is rejected.
C2_BatchIffEach ==
    pc = "done" =>
        /\ Len(alone) = Len(batch)
        /\ verdict = "Ok" <=> \A i \in 1..Len(alone) : alone[i] = "Ok"

\* a batch of two proofs of different n and m was accepted
C2_Witness ==
    /\ pc = "done" /\ verdict = "Ok"
    /\ Len(batch) = 2
    /\ batch[1].n # batch[2].n
    /\ Len(batch[1].value_commitments) # Len(batch[2].value_commitments)

\* C3: transcript binding.  A proof verified under a transcript whose
\* initial state differs from the prover's (another label) is rejected with
\* VerificationError.
C3_TranscriptBinding ==
    (pc = "verified" /\ ~SameTranscript) => verdict = "VerificationError"

\* a proof that is valid under the prover's label was verified, intact and
\* with the prover's commitments, under another label
C3_Witness ==
    /\ pc = "verified" /\ verdict = "VerificationError"
    /\ ~SameTranscript /\ SameCommitments /\ ProofIntact
    /\ ParamsValid /\ InRange

\* C4: commitment binding.  A proof verified with value commitments that
\* differ from the returned ones in any one V_j is rejected with
\* VerificationError.
C4_CommitmentBinding ==
    (pc = "verified" /\ ~SameCommitments) => verdict = "VerificationError"

\* a valid, intact proof of two values was verified under the prover's label
\* with the second commitment replaced by a commitment to another value
C4_Witness ==
    /\ pc = "verified" /\ verdict = "VerificationError"
    /\ SameTranscript /\ ProofIntact /\ ParamsValid /\ InRange
    /\ Len(values) = 2
    /\ view.value_commitments[1] = result.value_commitments[1]
    /\ view.value_commitments[2] # result.value_commitments[2]
    /\ decompress(view.value_commitments[2]) # None

\* C5: detection of dishonest parties.  When some parties' values are out
\* of range, receive_shares returns MalformedProofShares whose bad_shares
\* are exactly the positions (from 0) of those parties, ascending, and
\* returns no proof.
C5_DishonestParties ==
    (pc = "received" /\ ParamsValid /\ ~InRange) =>
        /\ result.err = "MalformedProofShares"
        /\ result.bad_shares = OutOfRange
        /\ DOMAIN result = {"err", "bad_shares"}

\* of four parties, those at positions 1 and 3 were out of range and were
\* the ones reported
C5_Witness ==
    /\ pc = "received"
    /\ Len(values) = 4
    /\ values[1] < 2^n /\ values[2] >= 2^n /\ values[3] < 2^n /\ values[4] >= 2^n
    /\ result.err = "MalformedProofShares"
    /\ result.bad_shares = <<1, 3>>

\* C6: detection of a dishonest dealer.  When the poly challenge has x = 0,
\* every party's apply_challenge returns MaliciousDealer and no share.
C6_DishonestDealer ==
    (Len(proof_shares) > 0 /\ poly_challenge.x = 0) =>
        \A j \in 1..Len(proof_shares) :
            /\ proof_shares[j].err = "MaliciousDealer"
            /\ DOMAIN proof_shares[j] = {"err"}

\* four parties were given the challenge x = 0 and the run failed
C6_Witness ==
    /\ pc = "failed"
    /\ Len(proof_shares) = 4
    /\ poly_challenge.x = 0
    /\ result.err = "MaliciousDealer"

\* C7: round trip.  from_bytes(to_bytes(p)) succeeds and gives a proof equal
\* to p in every field.
C7_RoundTrip ==
    (pc = "decoded" /\ wire = to_bytes(result.proof)) =>
        /\ decoded.err = "Ok"
        /\ decoded.proof.A = result.proof.A
        /\ decoded.proof.S = result.proof.S
        /\ decoded.proof.T_1 = result.proof.T_1
        /\ decoded.proof.T_2 = result.proof.T_2
        /\ decoded.proof.t_x = result.proof.t_x
        /\ decoded.proof.t_x_blinding = result.proof.t_x_blinding
        /\ decoded.proof.e_blinding = result.proof.e_blinding
        /\ decoded.proof.ipp_proof.L_vec = result.proof.ipp_proof.L_vec
        /\ decoded.proof.ipp_proof.R_vec = result.proof.ipp_proof.R_vec
        /\ decoded.proof.ipp_proof.a = result.proof.ipp_proof.a
        /\ decoded.proof.ipp_proof.b = result.proof.ipp_proof.b

\* the bytes of a proof of two values were decoded
C7_Witness ==
    /\ pc = "decoded"
    /\ Len(values) = 2
    /\ wire = to_bytes(result.proof)
    /\ decoded.err = "Ok"
    /\ Len(decoded.proof.ipp_proof.L_vec) = Lg(n * 2)

\* C8: size and layout.  The bytes of a proof for n and m are
\* 32 * (7 + 2k + 2) long, k = log2(n * m), and hold the 32-byte elements
\* A, S, T_1, T_2, t_x, t_x_blinding, e_blinding, L_0, R_0, ..., L_(k-1),
\* R_(k-1), a, b in this order.
C8_SizeAndLayout ==
    pc = "encoded" =>
        LET p == result.proof
            k == Lg(n * Len(values))
        IN  /\ Len(wire) = 32 * (7 + 2 * k + 2)
            /\ Element(wire, 0) = p.A
            /\ Element(wire, 1) = p.S
            /\ Element(wire, 2) = p.T_1
            /\ Element(wire, 3) = p.T_2
            /\ Element(wire, 4) = scalar_bytes(p.t_x)
            /\ Element(wire, 5) = scalar_bytes(p.t_x_blinding)
            /\ Element(wire, 6) = scalar_bytes(p.e_blinding)
            /\ Len(p.ipp_proof.L_vec) = k /\ Len(p.ipp_proof.R_vec) = k
            /\ \A j \in 0..(k - 1) :
                  /\ Element(wire, 7 + 2 * j) = p.ipp_proof.L_vec[j + 1]
                  /\ Element(wire, 8 + 2 * j) = p.ipp_proof.R_vec[j + 1]
            /\ Element(wire, 7 + 2 * k) = scalar_bytes(p.ipp_proof.a)
            /\ Element(wire, 8 + 2 * k) = scalar_bytes(p.ipp_proof.b)

\* a proof for n = 8 and m = 4 (k = 5) was encoded in 32 * 19 bytes
C8_Witness ==
    /\ pc = "encoded"
    /\ n = 8 /\ Len(values) = 4
    /\ Len(wire) = 608

\* the number of whole elements of the bytes handed to from_bytes
NumElements == Len(wire) \div 32

\* the elements from_bytes reads as scalars are all canonical
ScalarsCanonical ==
    \A k \in ScalarElements(NumElements) :
        from_canonical_bytes(Element(wire, k)) # None

\* C9, as stated: from_bytes returns FormatError when the length is not a
\* multiple of 32, when it is below 7 * 32, or when t_x, t_x_blinding or
\* e_blinding is not canonical; bytes that meet the length rule and hold
\* canonical scalars are not rejected for their length.
C9_AsStated ==
    pc = "decoded" =>
        /\ (\/ Len(wire) % 32 # 0
            \/ Len(wire) < 7 * 32
            \/ \E k \in {4, 5, 6} \cap (0..(NumElements - 1)) :
                  from_canonical_bytes(Element(wire, k)) = None)
              => decoded.err = "FormatError"
        /\ (Len(wire) % 32 = 0 /\ Len(wire) >= 7 * 32 /\ ScalarsCanonical)
              => decoded.err = "Ok"

\* C9: from_bytes returns FormatError exactly when the length is not a
\* multiple of 32, or is below 7 * 32, or t_x, t_x_blinding or e_blinding is
\* not canonical, or the bytes after the seventh element are not an inner
\* product proof: 2k + 2 elements, k >= 0, the last two canonical scalars.
\* The points are not looked at.
C9_FormatError ==
    pc = "decoded" =>
        (decoded.err = "FormatError" <=>
            \/ Len(wire) % 32 # 0
            \/ Len(wire) < 7 * 32
            \/ NumElements < 7 + 2
            \/ (NumElements - 7 - 2) % 2 # 0
            \/ ~ScalarsCanonical)

\* bytes of 7 whole elements with canonical t_x, t_x_blinding, e_blinding
\* were rejected: no inner product proof follows them
C9_Witness ==
    /\ pc = "decoded"
    /\ Len(wire) = 7 * 32
    /\ ScalarsCanonical
    /\ decoded.err = "FormatError"

\* C10: deferred decompression.  from_bytes does not fail because a point
\* of the bytes is not a valid point; the proof it returns is rejected with
\* VerificationError when it is verified, and so is a proof verified with a
\* value commitment that does not decompress.
C10_DeferredDecompression ==
    /\ (pc = "decoded" /\ result.err = "Ok") => decoded.err = "Ok"
    /\ (pc = "verified"
            /\ (\/ SomePointInvalid
                \/ \E j \in 1..Len(view.value_commitments) :
                      decompress(view.value_commitments[j]) = None))
          => verdict = "VerificationError"

\* bytes with an invalid L_0 were decoded with Ok and the proof was rejected
\* when verified with the prover's transcript and commitments
C10_Witness ==
    /\ pc = "verified" /\ verdict = "VerificationError"
    /\ decoded.err = "Ok"
    /\ decompress(decoded.proof.ipp_proof.L_vec[1]) = None
    /\ SameTranscript /\ SameCommitments /\ ParamsValid /\ InRange

\* C11: for every n >= 1, m >= 1 and all scalars y, z, delta(n, m, y, z) is
\* (z - z^2) * sum_{i < n*m} y^i - sum_{j < m} z^(j+3) * sum_{i < n} 2^i as
\* the loop computes it power by power in the scalar field, also when the
\* powers of 2 and of y wrap around the order.
C11_DeltaIdentity ==
    pc = "delta_done" => delta_call.out = delta_call.power_g

\* a call with several parties whose powers of 2 and of y have wrapped
\* around the order has returned
C11_Witness ==
    /\ pc = "delta_done"
    /\ delta_call.n >= 16 /\ delta_call.m >= 2
    /\ delta_call.y > 1 /\ delta_call.z > 1
    /\ 2^delta_call.n > Order
    /\ delta_call.out = delta_call.power_g
    /\ delta_call.out # 0

\* the call of prove_multiple has failed on its parameters
ParamsRejected ==
    /\ pc = "failed"
    /\ result.err \in {"WrongNumBlindingFactors", "InvalidBitsize",
                       "InvalidAggregationSize", "InvalidGeneratorsLength"}

\* C12: prove_multiple returns WrongNumBlindingFactors whenever values.len()
\* differs from blindings.len(), whatever n and the capacities of the
\* generators are (the error precedes InvalidBitsize, InvalidAggregationSize
\* and InvalidGeneratorsLength), and no Dealer or Party is created.
C12_LengthCheckFirst ==
    (pc # "start" /\ Len(values) # Len(blindings)) =>
        /\ pc = "failed"
        /\ result = [err |-> "WrongNumBlindingFactors"]
        /\ dealer = None
        /\ parties = <<>>

\* lengths that differ were given together with a bitsize, an aggregation
\* size and generators that each would have been rejected
C12_Witness ==
    /\ pc = "failed"
    /\ Len(values) # Len(blindings)
    /\ ~ValidBitsize(n)
    /\ ~is_power_of_two(Len(values))
    /\ gens.party_capacity < Len(values)
    /\ result.err = "WrongNumBlindingFactors"

\* C13: whenever prove_multiple fails on its parameters (InvalidBitsize,
\* InvalidAggregationSize, InvalidGeneratorsLength, WrongNumBlindingFactors)
\* the caller's transcript is as it was before the call: nothing, not even
\* the domain separator, has been appended.
C13_TranscriptUntouched ==
    ParamsRejected =>
        /\ transcript = TranscriptNew(label)
        /\ transcript.ops = <<>>

\* n = 65 was rejected with InvalidBitsize
C13_Witness ==
    /\ ParamsRejected
    /\ n = 65
    /\ Len(values) = Len(blindings)
    /\ result.err = "InvalidBitsize"
    /\ transcript = TranscriptNew(label)

\* the view about to be handed to add_proof passes the checks of its bitsize
\* and of the capacities of the generators
ViewParamsValid ==
    /\ pc = "view"
    /\ ValidBitsize(view.n)
    /\ view.n <= gens.gens_capacity
    /\ Len(view.value_commitments) <= gens.party_capacity

\* C14: whenever the aggregation size m (the number of values given to
\* prove_multiple, of commitments given to add_proof) is not a power of two,
\* m = 0 included, and the other parameters are valid, the operation fails
\* with InvalidAggregationSize and the transcript has not been modified.
C14_AggregationSize ==
    [][/\ (/\ pc = "start"
           /\ Len(values) = Len(blindings)
           /\ ValidBitsize(n)
           /\ n <= gens.gens_capacity
           /\ Len(values) <= gens.party_capacity
           /\ ~is_power_of_two(Len(values)))
          => (/\ result' = [err |-> "InvalidAggregationSize"]
              /\ transcript' = transcript)
       /\ (/\ ViewParamsValid
           /\ ~is_power_of_two(Len(view.value_commitments)))
          => (/\ verdict' = "InvalidAggregationSize"
              /\ view'.transcript = view.transcript)]_vars

\* the call of add_proof has left the view's transcript, the rng and the
\* collector as they were
AddProofFrame ==
    /\ view'.transcript = view.transcript
    /\ rng' = rng
    /\ collector' = collector

\* C15: add_proof returns InvalidBitsize when view.n is not in {8,16,32,64};
\* otherwise InvalidGeneratorsLength when view.n > gens_capacity or
\* m > party_capacity; in these cases nothing was appended to the view's
\* transcript, no random scalar was drawn and the accumulator is unchanged.
C15_ParameterChecks ==
    [][pc = "view" =>
         IF ~(view.n \in {8, 16, 32, 64})
         THEN verdict' = "InvalidBitsize" /\ AddProofFrame
         ELSE IF \/ view.n > gens.gens_capacity
                 \/ Len(view.value_commitments) > gens.party_capacity
         THEN verdict' = "InvalidGeneratorsLength" /\ AddProofFrame
         ELSE verdict' \notin {"InvalidBitsize", "InvalidGeneratorsLength"}]_vars

\* a collector that holds a proof has rejected a view with more commitments
\* than the generators have parties
C15_Witness ==
    /\ pc = "added"
    /\ batch # <<>>
    /\ verdict = "InvalidGeneratorsLength"
    /\ view.n \in {8, 16, 32, 64}
    /\ view.n <= gens.gens_capacity
    /\ Len(view.value_commitments) > gens.party_capacity
    /\ view.transcript.ops = <<>>
    /\ collector # BatchCollectorNew

\* the operations add_proof performs on the transcript of a view, in order
ExpectedOps(v) ==
    <<"dom-sep">>
    \o [j \in 1..Len(v.value_commitments) |-> "V"]
    \o <<"A", "S", "y", "z", "T_1", "T_2", "x", "t_x", "t_x_blinding",
         "e_blinding", "w", "ipp-dom-sep">>
    \o [k \in 1..(3 * Len(v.proof.ipp_proof.L_vec)) |->
            IF k % 3 = 1 THEN "L" ELSE IF k % 3 = 2 THEN "R" ELSE "u"]
    \o <<"ipp_a", "ipp_b", "c">>

IsPrefix(a, b) == Len(a) <= Len(b) /\ a = SubSeq(b, 1, Len(a))

\* C16: add_proof performs its transcript operations in this order and no
\* other: domain separator; V_j in list order; A; S; challenges y, z; T_1;
\* T_2; challenge x; t_x; t_x_blinding; e_blinding; challenge w; the replay
\* of the inner product proof (L, R, u per round); ipp_a; ipp_b; challenge
\* c.  A call that fails has performed a prefix of them.
C16_TranscriptOrder ==
    (pc = "added" /\ verdict \in {"Ok", "VerificationError"}) =>
        /\ IsPrefix(view.transcript.ops, ExpectedOps(view))
        /\ verdict = "Ok" <=> view.transcript.ops = ExpectedOps(view)
        /\ (view.transcript.ops = <<"dom-sep", "V", "V">>) =>
               view.transcript =
                   append_point(
                       append_point(
                           rangeproof_domain_sep(TranscriptNew(1), view.n, 2),
                           "V", view.value_commitments[1]),
                       "V", view.value_commitments[2])

\* a view with two commitments and a proof of four rounds was added
C16_Witness ==
    /\ pc = "added"
    /\ verdict = "Ok"
    /\ Len(view.value_commitments) = 2
    /\ Len(view.proof.ipp_proof.L_vec) = 4
    /\ view.transcript.ops = ExpectedOps(view)
    /\ Len(view.transcript.ops) = 30

\* the positions of a run of prove_multiple at which the dealer and the
\* parties exist
ProverSteps == {"position", "bit_commitments", "bit_challenge",
                "poly_commitments", "poly_challenge", "shares"}

RunRank(p) ==
    CASE p = "start" -> 0
      [] p = "position" -> 1
      [] p = "bit_commitments" -> 2
      [] p = "bit_challenge" -> 3
      [] p = "poly_commitments" -> 4
      [] p = "poly_challenge" -> 5
      [] p = "shares" -> 6
      [] p \in {"proved", "received"} -> 7
      [] OTHER -> 8

DealerRank(d) ==
    CASE d.state = "AwaitingBitCommitments" -> 1
      [] d.state = "AwaitingPolyCommitments" -> 2
      [] d.state = "AwaitingProofShares" -> 3

PartyRank(p) ==
    CASE p.state = "AwaitingPosition" -> 1
      [] p.state = "AwaitingBitChallenge" -> 2
      [] p.state = "AwaitingPolyChallenge" -> 3

AllParties(state) ==
    /\ Len(parties) = dealer.m
    /\ \A j \in 1..Len(parties) : parties[j].state = state

\* what the dealer and the parties are and hold at each position of the run
MpcStates ==
    /\ pc = "position" =>
          /\ dealer.state = "AwaitingBitCommitments"
          /\ AllParties("AwaitingPosition")
          /\ bit_commitments = <<>>
    /\ pc = "bit_commitments" =>
          /\ dealer.state = "AwaitingBitCommitments"
          /\ AllParties("AwaitingBitChallenge")
          /\ \A j \in 1..Len(parties) : parties[j].j = j - 1
          /\ Len(bit_commitments) = dealer.m
          /\ poly_commitments = <<>>
    /\ pc = "bit_challenge" =>
          /\ dealer.state = "AwaitingPolyCommitments"
          /\ dealer.bit_commitments = bit_commitments
          /\ Len(bit_commitments) = dealer.m
          /\ bit_challenge = dealer.bit_challenge
          /\ AllParties("AwaitingBitChallenge")
          /\ poly_commitments = <<>>
    /\ pc = "poly_commitments" =>
          /\ dealer.state = "AwaitingPolyCommitments"
          /\ AllParties("AwaitingPolyChallenge")
          /\ Len(poly_commitments) = dealer.m
          /\ proof_shares = <<>>
    /\ pc = "poly_challenge" =>
          /\ dealer.state = "AwaitingProofShares"
          /\ dealer.poly_commitments = poly_commitments
          /\ Len(poly_commitments) = dealer.m
          /\ poly_challenge = dealer.poly_challenge \/ poly_challenge.x = 0
          /\ AllParties("AwaitingPolyChallenge")
          /\ proof_shares = <<>>
    /\ pc = "shares" =>
          /\ dealer.state = "AwaitingProofShares"
          /\ Len(proof_shares) = dealer.m
          /\ \A j \in 1..Len(proof_shares) : proof_shares[j].err = "Ok"
    /\ pc = "proved" =>
          /\ result.err = "Ok"
          /\ Len(proof_shares) = dealer.m
          /\ Len(result.value_commitments) = dealer.m
    /\ pc = "failed" =>
          /\ DOMAIN result = {"err"}
          /\ result.err # "Ok"

\* a step of the run: it moves to the next position or fails; the dealer and
\* every party stay in their state or enter the next one; nothing follows a
\* failure
MpcStep ==
    /\ pc # "failed"
    /\ pc \in {"start"} \cup ProverSteps =>
          \/ pc' = "failed"
          \/ RunRank(pc') = RunRank(pc) + 1
          \/ pc' = pc /\ pc = "poly_challenge" /\ UNCHANGED <<dealer, parties>>
    /\ (pc \in ProverSteps /\ pc' \in ProverSteps) =>
          /\ DealerRank(dealer') - DealerRank(dealer) \in {0, 1}
          /\ Len(parties') = Len(parties)
          /\ \A j \in 1..Len(parties) :
                PartyRank(parties'[j]) - PartyRank(parties[j]) \in {0, 1}
    /\ (pc \in ProverSteps /\ pc' = "failed") => UNCHANGED <<dealer, parties>>

\* C17: in prove_multiple each Party goes AwaitingPosition ->
\* AwaitingBitChallenge -> AwaitingPolyChallenge -> ProofShare and the Dealer
\* AwaitingBitCommitments -> AwaitingPolyCommitments -> AwaitingProofShares
\* -> Done, no state being entered again; the dealer derives the bit
\* challenge only once it has the bit commitments of all m parties (party j
\* at position j), the poly challenge only once it has all m poly
\* commitments, the proof only once it has all m shares; no party applies a
\* challenge the dealer has not produced; a failure at any step ends the run
\* with that error and no proof.
C17_MpcOrdering == [](MpcStates) /\ [][MpcStep]_vars

\* a run of four parties has gone through every state and returned a proof
C17_Witness ==
    /\ pc = "proved"
    /\ Len(values) = 4
    /\ dealer.state = "AwaitingProofShares"
    /\ AllParties("AwaitingPolyChallenge")
    /\ Len(proof_shares) = 4
    /\ result.err = "Ok"

\* entry (j, i) (from 0) of a matrix of the collector, zero when the matrix
\* does not reach it
EntryOf(mat, j, i) ==
    IF j < Len(mat) /\ i < Len(mat[j + 1]) THEN mat[j + 1][i + 1] ELSE 0

\* the terms of the generators G[j][i] and H[j][i] for a proof with the
\* challenges and scalars L and the final scalars a, b, the scalars s and
\* the powers of 1/y taken at position k
GTerm(L, a, k) == ScSub(ScNeg(L.z), ScMul(a, L.s[k + 1]))

HTerm(L, b, j, i, k) ==
    ScAdd(L.z,
          ScMul(ScInv(ScPow(L.y, k)),
                ScSub(ScMul(ScMul(ScMul(L.z, L.z), ScPow(L.z, j)),
                            ScPow(ScFrom(2), i)),
                      ScMul(b, ScInv(L.s[k + 1])))))

\* a successful add_proof has added to the entries (j, i) of its m x n block
\* the terms taken at position K(j, i), times the batch factor, and nothing
\* to any other entry
CoefficientsAdded(K(_, _)) ==
    (pc = "view" /\ verdict' = "Ok") =>
        \A j \in 0..(collector'.party_capacity - 1) :
          \A i \in 0..(collector'.gens_capacity - 1) :
            LET inside == j < Len(view.value_commitments) /\ i < view.n
                r == replay'.batch_factor
                a == view.proof.ipp_proof.a
                b == view.proof.ipp_proof.b
            IN  /\ EntryOf(collector'.g_scalars, j, i) =
                      IF inside
                      THEN ScAdd(EntryOf(collector.g_scalars, j, i),
                                 ScMul(r, GTerm(replay', a, K(j, i))))
                      ELSE EntryOf(collector.g_scalars, j, i)
                /\ EntryOf(collector'.h_scalars, j, i) =
                      IF inside
                      THEN ScAdd(EntryOf(collector.h_scalars, j, i),
                                 ScMul(r, HTerm(replay', b, j, i, K(j, i))))
                      ELSE EntryOf(collector.h_scalars, j, i)

\* C18 as stated: a successful add_proof adds, for every party j < m and bit
\* i < n, r*(-z - a*s_i) to g_scalars[j][i] and
\* r*(z + y^(-i) * (z^2 * z^j * 2^i - b * s_i^(-1))) to h_scalars[j][i], the
\* index of s and the power of 1/y being the bit i, and nothing elsewhere.
C18_AsStated == [][CoefficientsAdded(LAMBDA j, i : i)]_vars

\* C18, amended: the index of s and the power of 1/y are the position
\* k = j*n + i of (j, i) among the n*m generators: a successful add_proof
\* adds r*(-z - a*s_k) to g_scalars[j][i] and
\* r*(z + y^(-k) * (z^2 * z^j * 2^i - b * s_k^(-1))) to h_scalars[j][i], and
\* nothing to any other entry.
C18_Coefficients == [][CoefficientsAdded(LAMBDA j, i : j * view.n + i)]_vars

\* a proof for two parties was added to a collector that held a proof
C18_Witness ==
    /\ pc = "added"
    /\ verdict = "Ok"
    /\ Len(batch) = 2
    /\ Len(view.value_commitments) = 2
    /\ collector.party_capacity = 2
    /\ EntryOf(collector.g_scalars, 1, 0) # 0
    /\ EntryOf(collector.h_scalars, 1, 0) # 0

\* the largest of a non-empty set of numbers
SetMax(S) == CHOOSE x \in S : \A y \in S : y <= x

\* every row of a matrix of the collector has cols entries, and there are
\* rows of them
HasShape(mat, rows, cols) ==
    /\ Len(mat) = rows
    /\ \A j \in 1..Len(mat) : Len(mat[j]) = cols

\* the dimensions of the collector are the largest m and n of the proofs
\* added, within the capacities of the generators, and its matrices have
\* these dimensions
DimensionsAreMaxima ==
    /\ collector.party_capacity =
          SetMax({0} \cup {Len(batch[k].value_commitments) : k \in 1..Len(batch)})
    /\ collector.gens_capacity =
          SetMax({0} \cup {batch[k].n : k \in 1..Len(batch)})
    /\ collector.party_capacity <= gens.party_capacity
    /\ collector.gens_capacity <= gens.gens_capacity
    /\ HasShape(collector.g_scalars, collector.party_capacity,
                collector.gens_capacity)
    /\ HasShape(collector.h_scalars, collector.party_capacity,
                collector.gens_capacity)

\* a successful add_proof of a proof within the current dimensions keeps the
\* dimensions; every entry outside the m x n block of the proof is as it was,
\* or zero when it is new
DimensionsStep ==
    (pc = "view" /\ verdict' = "Ok") =>
        /\ (/\ Len(view.value_commitments) <= collector.party_capacity
            /\ view.n <= collector.gens_capacity)
           => /\ collector'.party_capacity = collector.party_capacity
              /\ collector'.gens_capacity = collector.gens_capacity
        /\ collector'.party_capacity >= collector.party_capacity
        /\ collector'.gens_capacity >= collector.gens_capacity
        /\ \A j \in 0..(collector'.party_capacity - 1) :
             \A i \in 0..(collector'.gens_capacity - 1) :
                (j >= Len(view.value_commitments) \/ i >= view.n) =>
                    /\ EntryOf(collector'.g_scalars, j, i) =
                          EntryOf(collector.g_scalars, j, i)
                    /\ EntryOf(collector'.h_scalars, j, i) =
                          EntryOf(collector.h_scalars, j, i)

\* C19: after any sequence of successful add_proof calls party_capacity is
\* the largest m and gens_capacity the largest n of the proofs added (0 when
\* none), neither exceeds the capacity of bp_gens, and g_scalars and
\* h_scalars have party_capacity rows of gens_capacity entries; adding a
\* proof smaller than the dimensions leaves the dimensions and the entries
\* outside its block unchanged, growing keeps the entries accumulated and
\* fills the new ones with zero.
C19_RunningMaximum == [](DimensionsAreMaxima) /\ [][DimensionsStep]_vars

\* a proof of 2 parties and 8 bits was added after one of 1 party and 16
\* bits: the matrices are 2 x 16, the old row is kept beyond the block and
\* the new row is zero beyond it
C19_Witness ==
    /\ pc = "added"
    /\ verdict = "Ok"
    /\ Len(batch) = 2
    /\ batch[1].n = 16 /\ Len(batch[1].value_commitments) = 1
    /\ batch[2].n = 8 /\ Len(batch[2].value_commitments) = 2
    /\ collector.party_capacity = 2 /\ collector.gens_capacity = 16
    /\ EntryOf(collector.g_scalars, 0, 8) # 0
    /\ EntryOf(collector.g_scalars, 1, 8) = 0
    /\ EntryOf(collector.g_scalars, 1, 7) # 0

\* the points A, S, T_1, T_2 of a view that are the identity
IdentityPoints(v) ==
    {l \in ProofPoints :
        compressed_is_identity(
            CASE l = "A" -> v.proof.A
              [] l = "S" -> v.proof.S
              [] l = "T_1" -> v.proof.T_1
              [] l = "T_2" -> v.proof.T_2)}

\* the operations add_proof performs before it appends the first of the
\* points in ls
OpsBefore(v, ls) ==
    LET ops == ExpectedOps(v)
        first == CHOOSE k \in 1..Len(ops) :
                    ops[k] \in ls /\ \A h \in 1..(k - 1) : ops[h] \notin ls
    IN  SubSeq(ops, 1, first - 1)

\* C20: if one of the points A, S, T_1, T_2 of the proof is the identity,
\* add_proof fails with VerificationError when that point would be appended
\* to the transcript: nothing after it is appended, no later challenge is
\* drawn, and the accumulator (and the rng) are unchanged; verify_multiple of
\* the view and verify_batch of a batch that holds it fail in the same way.
C20_IdentityPoints ==
    [][(ViewParamsValid /\ IdentityPoints(view) # {}) =>
          /\ verdict' = "VerificationError"
          /\ view'.transcript.ops = OpsBefore(view, IdentityPoints(view))
          /\ collector' = collector
          /\ rng' = rng
          /\ verify_multiple(view.proof, gens, view.transcript,
                             view.value_commitments, view.n, rng)
                = [err |-> "VerificationError", rng |-> rng]
          /\ verify_batch(batch \o <<view>>, gens, rng).err
                = "VerificationError"]_vars

\* a collector that holds a proof has rejected a view whose T_2 is the
\* identity, after appending T_1 and drawing y and z only
C20_Witness ==
    /\ pc = "added"
    /\ verdict = "VerificationError"
    /\ batch # <<>>
    /\ IdentityPoints(view) = {"T_2"}
    /\ Len(view.value_commitments) = 2
    /\ view.transcript.ops =
          <<"dom-sep", "V", "V", "A", "S", "y", "z", "T_1">>

\* a party of the run holds the value 0 under the blinding factor 0
ZeroParty(j) == values[j] = 0 /\ blindings[j] = 0

\* the commitment at position j (from 1) is the identity point
IdentityCommitment(cs, j) == cs[j] = compress(Vec(Identity(gens)))

\* C21: zero-valued commitments are allowed.  The value commitments are
\* appended to the transcript without a validity check: a run of
\* prove_multiple with a party of value 0 and blinding 0 does not fail, the
\* commitment V_j it returns for that party is the identity point, and
\* verify_multiple of the proof, under a transcript of the same initial
\* state and the returned commitments, returns Ok.
C21_ZeroCommitments ==
    (\E j \in 1..Len(values) : ZeroParty(j)) /\ ParamsValid =>
        /\ pc # "failed"
        /\ pc = "proved" =>
              /\ result.err = "Ok"
              /\ \A j \in 1..Len(values) :
                    ZeroParty(j) <=> IdentityCommitment(result.value_commitments, j)
        /\ (pc = "verified" /\ ProofIntact /\ SameTranscript /\ SameCommitments)
              => verdict = "Ok"

\* a proof for two parties, the second of value 0 and blinding 0, was made
\* and accepted with the identity point as the second commitment
C21_Witness ==
    /\ pc = "verified" /\ verdict = "Ok"
    /\ Len(values) = 2 /\ values[1] = 255 /\ ZeroParty(2)
    /\ ProofIntact /\ SameTranscript /\ SameCommitments
    /\ IdentityCommitment(view.value_commitments, 2)

\* a step of add_proof that returns an error
AddProofFailed == pc = "view" /\ pc' = "added" /\ verdict' # "Ok"

\* the views a batch may go on with after a view: none, a view that
\* add_proof takes, a view it rejects for its bitsize and then one it takes
RemainingViews ==
    {<<>>, <<ViewOf(gens, 8, 1, "none")>>,
     <<ViewOf(gens, 65, 1, "none"), ViewOf(gens, 8, 1, "none")>>}

\* C22: a failed add_proof leaves the accumulator untouched.  Whenever
\* add_proof returns an error (a parameter check, an identity point, an inner
\* product proof whose length does not fit n * m), every field of the
\* collector is as before the call and nothing was drawn from the rng; and
\* verify_batch of the views added so far, then this view, then any further
\* views returns that error, its rng as the failed call left it.
C22_FailedAddProof ==
    [][AddProofFailed =>
        /\ collector'.dynamic_scalars = collector.dynamic_scalars
        /\ collector'.dynamic_points = collector.dynamic_points
        /\ collector'.pedersen_B_scalar = collector.pedersen_B_scalar
        /\ collector'.pedersen_B_blinding_scalar
              = collector.pedersen_B_blinding_scalar
        /\ collector'.g_scalars = collector.g_scalars
        /\ collector'.h_scalars = collector.h_scalars
        /\ collector'.party_capacity = collector.party_capacity
        /\ collector'.gens_capacity = collector.gens_capacity
        /\ rng' = rng
        /\ \A rest \in RemainingViews :
              verify_batch(Append(batch, view) \o rest, gens, Seed)
                  = [err |-> verdict', rng |-> rng']]_vars

\* after a proof was added, add_proof failed on a view of three commitments,
\* whose inner product proof cannot fit n * m = 24
C22_Witness ==
    /\ pc = "added" /\ verdict = "VerificationError"
    /\ Len(batch) = 1 /\ collector.dynamic_scalars # <<>>
    /\ view.n = 8 /\ Len(view.value_commitments) = 3
    /\ rng = ScalarRandom(Seed)[2]

\* the collector holds no dynamic point and no generator scalar
NothingCollected ==
    /\ collector.dynamic_scalars = <<>> /\ collector.dynamic_points = <<>>
    /\ collector.g_scalars = <<>> /\ collector.h_scalars = <<>>
    /\ collector.party_capacity = 0 /\ collector.gens_capacity = 0

\* C24: the empty batch.  verify_batch called with no views returns Ok: its
\* loop adds nothing to the collector BatchCollector::new made, which holds
\* no dynamic point and 0 x 0 matrices of generator scalars, draws nothing
\* from the rng, and verify() of that collector finds the identity point.
C24_EmptyBatch ==
    /\ (pc \in {"collect", "done"} /\ batch = <<>>) =>
          NothingCollected /\ remaining = <<>>
    /\ (pc = "done" /\ batch = <<>>) =>
          /\ verdict = "Ok"
          /\ verify_batch(batch, gens, rng) = [err |-> "Ok", rng |-> rng]

\* verify_batch of the empty batch has returned Ok
C24_Witness ==
    /\ pc = "done" /\ batch = <<>> /\ verdict = "Ok"
    /\ NothingCollected

\* the views of the batch that do not verify alone
FailingAlone == {i \in 1..Len(alone) : alone[i] # "Ok"}

\* C23 as stated: for a fixed batch the outcome of verify_batch is the same
\* for every sequence of batch factors the rng can return.
C23_AsStated ==
    pc = "done" =>
        \A s \in VerifierRngs : verify_batch(batch, gens, s).err = verdict

\* the batch factor drawn from the rng in state s, and the one drawn by the
\* i-th add_proof (from 1) of a batch verified with the rng in state s
FactorOf(s) == ScalarRandom(s)[1]
FactorAt(s, i) == FactorOf(RngSkip(s, i - 1))

\* what add_proof adds to a collector for the view v alone, with the batch
\* factor drawn from the rng in state s
ContributionOf(v, s) == add_proof(BatchCollectorNew, gens, v, s).col

\* the point verify() computes from a collector
MegaCheck(col) ==
    multiscalar_mul(Dim(gens),
        col.dynamic_scalars
            \o Flatten(col.g_scalars, 1, <<>>)
            \o Flatten(col.h_scalars, 1, <<>>)
            \o <<col.pedersen_B_blinding_scalar, col.pedersen_B_scalar>>,
        col.dynamic_points
            \o GensG(gens, col.gens_capacity, col.party_capacity)
            \o GensH(gens, col.gens_capacity, col.party_capacity)
            \o <<PedBBlinding(gens), PedB(gens)>>)

\* the point of the view v alone under the batch factor 1
UnitCheck(v) ==
    PtMul(ScInv(FactorOf(Seed)), MegaCheck(ContributionOf(v, Seed)))

\* the sum of the points us of the views, each under the factor its
\* add_proof draws when the batch is verified with the rng in state s
WeightedSum(us, s) ==
    PtSum(<<Identity(gens)>> \o
          [i \in 1..Len(us) |-> PtMul(FactorAt(s, i), us[i])])

\* verify_multiple of the i-th view of the batch with the rng in state s
AloneWith(i, s) ==
    verify_multiple(batch[i].proof, gens, batch[i].transcript,
                    batch[i].value_commitments, batch[i].n, s).err

\* the outcomes of a batch under the rngs of the verifier
FactorsStates ==
    pc = "done" =>
        \A us \in {[i \in 1..Len(batch) |-> UnitCheck(batch[i])]} :
        \A s \in VerifierRngs : \A r \in {verify_batch(batch, gens, s)} :
            /\ \A i \in 1..Len(batch) : AloneWith(i, s) = alone[i]
            /\ r.rng = RngSkip(s, Len(batch))
            /\ r.err = "Ok" <=> is_identity(WeightedSum(us, s))
            /\ FailingAlone = {} => r.err = "Ok"
            /\ Cardinality(FailingAlone) = 1 => r.err = "VerificationError"

\* the scalars vs multiplied by k / d
Rescaled(vs, k, d) == [i \in 1..Len(vs) |-> ScMul(ScMul(vs[i], k), ScInv(d))]

\* a step of add_proof in the loop of verify_batch: one batch factor is
\* drawn, what the collector held stays, and what is added is what the view
\* adds alone under another factor, rescaled to the factor drawn
FactorsStep ==
    (pc = "collect" /\ pc' = "collect" /\ remaining' # remaining) =>
        LET r == FactorOf(rng)
            u == FactorOf(CancellingSeed)
            c == ContributionOf(Head(remaining), CancellingSeed)
            rows == Max(Len(collector.g_scalars), Len(c.g_scalars)) - 1
            cols == Max(collector.gens_capacity, c.gens_capacity) - 1
        IN  /\ rng' = RngNext(rng)
            /\ collector'.dynamic_scalars
                  = collector.dynamic_scalars \o Rescaled(c.dynamic_scalars, r, u)
            /\ collector'.dynamic_points
                  = collector.dynamic_points \o c.dynamic_points
            /\ <<collector'.pedersen_B_scalar,
                  collector'.pedersen_B_blinding_scalar>>
                  = <<ScAdd(collector.pedersen_B_scalar,
                            Rescaled(<<c.pedersen_B_scalar>>, r, u)[1]),
                      ScAdd(collector.pedersen_B_blinding_scalar,
                            Rescaled(<<c.pedersen_B_blinding_scalar>>, r, u)[1])>>
            /\ \A j \in 0..rows : \A i \in 0..cols :
                  /\ EntryOf(collector'.g_scalars, j, i)
                        = ScAdd(EntryOf(collector.g_scalars, j, i),
                                Rescaled(<<EntryOf(c.g_scalars, j, i)>>, r, u)[1])
                  /\ EntryOf(collector'.h_scalars, j, i)
                        = ScAdd(EntryOf(collector.h_scalars, j, i),
                                Rescaled(<<EntryOf(c.h_scalars, j, i)>>, r, u)[1])

\* C23: the batch factors.  add_proof draws exactly one batch factor per
\* proof added, and it multiplies every contribution of that proof and of
\* no other proof, so that verify() tests the sum of the proofs' points,
\* each weighted by its factor.  For a fixed batch of views of which at most
\* one does not verify alone, the outcome of verify_batch (and of
\* verify_multiple) is the same for every sequence of non-zero batch
\* factors: Ok when every proof verifies alone, VerificationError when one
\* does not.  When several do not, verify_batch returns Ok exactly for the
\* sequences of factors under which their weighted points cancel.  (The
\* factors ScalarRandom returns are never zero.)
C23_BatchFactors == [](FactorsStates) /\ [][FactorsStep]_vars

\* a batch of the same view twice, which does not verify alone, was accepted
\* by verify_batch under batch factors r and -r
C23_Witness ==
    /\ pc = "done" /\ verdict = "Ok"
    /\ Len(batch) = 2 /\ batch[1] = batch[2]
    /\ alone = <<"VerificationError", "VerificationError">>
    /\ ScAdd(FactorAt(CancellingSeed, 1), FactorAt(CancellingSeed, 2)) = 0
    /\ rng = RngSkip(CancellingSeed, 2)

====
